---- MODULE Spec2Model ----
(***************************************************************************)
(* Conversational orchestration core of marom-meta-backend:                *)
(*   - the command router and confirmation gate of the WhatsApp webhook    *)
(*     (handleIncomingWhatsAppMessage / executeCommand),                    *)
(*   - the workflow engine of workflows.js (CreateCampaign and the menu).  *)
(* Message texts are sequences of one-character strings so that the        *)
(* string operations of the code (case folding, trimming, prefix tests,    *)
(* regular-expression matches) are computed, not assumed.                  *)
(***************************************************************************)
EXTENDS Integers, Sequences, FiniteSets, Bags, TLC

VARIABLES
    adminNumbers,          \* ADMIN_NUMBERS, fixed at start-up from the environment
    pendingConfirmations,  \* Map phone -> { command, params }
    userWorkflows,         \* Map phone -> { workflow, step, data }
    tasks,                 \* in-flight invocations of handleIncomingWhatsAppMessage
    budgetTimer,           \* the setTimeout armed by handleShortcut, per user
    lastTurn,              \* what the most recent workflow-engine call did
    scenario,              \* per user: progress of the current CreateCampaign run
    resolution,            \* the most recent resolution of a name and its results
    conversationContext,   \* Map phone -> { lastProduct, lastAction, lastProductList, ... }
    userConversations,     \* Map phone -> Array<{ role, content, timestamp }>
    recorded,              \* per user: how many messages were ever recorded
    clock,                 \* Date.now(), in minutes since start-up
    lastRef,               \* per user: what the last message handled referred to
    escaped,               \* the send that completed last threw out of the message handler
    poll                   \* the call of pollVideoJob: position, attempt, what it saw

contextVars == <<conversationContext, userConversations, recorded, clock, lastRef>>

vars == <<adminNumbers, pendingConfirmations, userWorkflows, tasks,
          budgetTimer, lastTurn, scenario, resolution, contextVars, escaped, poll>>

----------------------------------------------------------------------------
(* Bounds *)

\* number of webhook messages whose handling may be in flight at once
MaxInFlight == 2

\* number of messages recorded per user in the histories explored
MaxRecorded == 22

\* a user's free texts are followed until this many entries are recorded
MaxHeard == 2

\* minutes of operation followed
MaxClock == 31

----------------------------------------------------------------------------
(* Strings *)

LowerChars == <<"a","b","c","d","e","f","g","h","i","j","k","l","m",
                "n","o","p","q","r","s","t","u","v","w","x","y","z">>
UpperChars == <<"A","B","C","D","E","F","G","H","I","J","K","L","M",
                "N","O","P","Q","R","S","T","U","V","W","X","Y","Z">>
DigitChars == <<"0","1","2","3","4","5","6","7","8","9">>

SetMin(S) == CHOOSE x \in S : \A y \in S : x <= y
SetMax(S) == CHOOSE x \in S : \A y \in S : x >= y

LowerOf(c) ==
    IF \E k \in 1..26 : UpperChars[k] = c
    THEN LowerChars[CHOOSE k \in 1..26 : UpperChars[k] = c]
    ELSE c

UpperOf(c) ==
    IF \E k \in 1..26 : LowerChars[k] = c
    THEN UpperChars[CHOOSE k \in 1..26 : LowerChars[k] = c]
    ELSE c

toLowerCase(s) == [i \in 1..Len(s) |-> LowerOf(s[i])]
toUpperCase(s) == [i \in 1..Len(s) |-> UpperOf(s[i])]

IsSpace(c) == c = " "
IsDigit(c) == \E k \in 1..10 : DigitChars[k] = c
DigitVal(c) == (CHOOSE k \in 1..10 : DigitChars[k] = c) - 1

trim(s) ==
    LET idx == {i \in 1..Len(s) : ~IsSpace(s[i])}
    IN  IF idx = {} THEN <<>> ELSE SubSeq(s, SetMin(idx), SetMax(idx))

startsWith(s, p) == Len(s) >= Len(p) /\ SubSeq(s, 1, Len(p)) = p

includes(s, p) ==
    \E i \in 1..(Len(s) - Len(p) + 1) : SubSeq(s, i, i + Len(p) - 1) = p

\* s.split(/\s+/) for a string without leading or trailing white space
RECURSIVE splitWs(_)
splitWs(s) ==
    IF \A i \in 1..Len(s) : ~IsSpace(s[i]) THEN <<s>>
    ELSE LET a == SetMin({i \in 1..Len(s) : IsSpace(s[i])})
             rest == SubSeq(s, a, Len(s))
             b == SetMin({i \in 1..Len(rest) : ~IsSpace(rest[i])})
         IN  <<SubSeq(s, 1, a - 1)>> \o splitWs(SubSeq(rest, b, Len(rest)))

\* parts.join(" ")
RECURSIVE join(_)
join(parts) ==
    IF parts = <<>> THEN <<>>
    ELSE IF Len(parts) = 1 THEN parts[1]
    ELSE parts[1] \o <<" ">> \o join(Tail(parts))

\* length of the run of digits that starts at position i of s
RECURSIVE digitRun(_, _)
digitRun(s, i) ==
    IF i > Len(s) \/ ~IsDigit(s[i]) THEN 0 ELSE 1 + digitRun(s, i + 1)

\* parseInt of a sequence of digits
RECURSIVE parseInt(_)
parseInt(ds) ==
    IF ds = <<>> THEN 0
    ELSE 10 * parseInt(SubSeq(ds, 1, Len(ds) - 1)) + DigitVal(ds[Len(ds)])

\* messageText.match(/^(\d)/) followed by parseInt; -1 stands for "no match"
leadingDigit(s) ==
    IF Len(s) >= 1 /\ IsDigit(s[1]) THEN DigitVal(s[1]) ELSE -1

\* messageText.match(/^(\d+)/) followed by parseInt; -1 stands for "no match"
leadingNumber(s) ==
    IF Len(s) >= 1 /\ IsDigit(s[1])
    THEN parseInt(SubSeq(s, 1, digitRun(s, 1)))
    ELSE -1

----------------------------------------------------------------------------
(* Message texts used as inputs, spelled character by character *)

T ==
    [empty |-> <<>>,
     YES |-> <<"Y","E","S">>,
     yes |-> <<"y","e","s">>,
     Yes |-> <<"Y","e","s">>,
     yesSp |-> <<" ","y","e","s">>,
     no |-> <<"n","o">>,
     pauseA |-> <<"/","p","a","u","s","e"," ","a">>,
     PauseAB |-> <<"/","P","a","u","s","e"," "," ","a"," ","b">>,
     resumeA |-> <<"/","r","e","s","u","m","e"," ","a">>,
     budgetA5 |-> <<"/","b","u","d","g","e","t"," ","a"," ","5">>,
     budgetA |-> <<"/","b","u","d","g","e","t"," ","a">>,
     createad |-> <<"/","c","r","e","a","t","e","a","d"," ","p"," ","5">>,
     help |-> <<"/","h","e","l","p">>,
     slashBack |-> <<"/","b","a","c","k">>,
     back |-> <<"b","a","c","k">>,
     BackSp |-> <<" ","B","a","c","k"," ">>,
     cancel |-> <<"c","a","n","c","e","l">>,
     menu |-> <<"m","e","n","u">>,
     hello |-> <<"h","e","l","l","o">>,
     shampoo |-> <<"s","h","a","m","p","o","o">>,
     list |-> <<"l","i","s","t">>,
     skip |-> <<"s","k","i","p">>,
     d1 |-> <<"1">>,
     d2 |-> <<"2">>,
     d3 |-> <<"3">>,
     d4 |-> <<"4">>,
     d9 |-> <<"9">>,
     setPrice |-> <<"s","e","t"," ","p","r","i","c","e"," ","t","o"," ","5">>,
     setShampooPrice |-> <<"s","e","t"," ","s","h","a","m","p","o","o"," ",
                           "p","r","i","c","e"," ","t","o"," ","5">>,
     setNumber2Price |-> <<"s","e","t"," ","n","u","m","b","e","r"," ","2"," ",
                           "p","r","i","c","e"," ","t","o"," ","5">>,
     setItsPrice |-> <<"s","e","t"," ","i","t","s"," ","p","r","i","c","e"," ",
                       "t","o"," ","5">>,
     b40ongoing |-> <<"$","4","0"," ","o","n","g","o","i","n","g">>,
     dates |-> <<"$","2","5"," ","1","/","2","/","2","0","2","5"," ","3","/","4","/","2","0","2","5">>,
     defaults |-> <<"u","s","e"," ","d","e","f","a","u","l","t","s">>,
     datesOnly |-> <<"1","/","2","/","2","0","2","5"," ","3","/","4","/","2","0","2","5">>,
     shortcut |-> <<"c","r","e","a","t","e"," ","c","a","m","p","a","i","g","n"," ",
                   "f","o","r"," ","s","o","a","p"," ","$","3","0">>]

----------------------------------------------------------------------------
(* Users and the admin list (src/unnamed/part_000:590, 1037-1039) *)

Users == {"u1", "u2"}

\* ADMIN_NUMBERS is read once from the environment: empty, or a list of phones
AdminConfigs == {{}, {"u1"}, {"u2"}}

isAdminEveryoneMutant(phoneNumber) == phoneNumber \in Users

isAdmin(phoneNumber) == adminNumbers = {} \/ phoneNumber \in adminNumbers

----------------------------------------------------------------------------
(* Confirmation gate and command router *)

\* pendingConfirmations.get(from) === undefined
NoPending == [command |-> <<>>, params |-> <<>>]

CmdPause    == <<"/","p","a","u","s","e">>
CmdResume   == <<"/","r","e","s","u","m","e">>
CmdBudget   == <<"/","b","u","d","g","e","t">>
CmdCreateAd == <<"/","c","r","e","a","t","e","a","d">>
CmdHelp     == <<"/","h","e","l","p">>
CmdStats    == <<"/","s","t","a","t","s">>
CmdProducts == <<"/","p","r","o","d","u","c","t","s">>

controlCommands == {CmdPause, CmdResume, CmdBudget, CmdCreateAd}
riskyCommands   == {CmdPause, CmdResume, CmdBudget}

handlerOf(command) ==
    IF command = CmdPause THEN "handlePause"
    ELSE IF command = CmdResume THEN "handleResume"
    ELSE IF command = CmdBudget THEN "handleBudget"
    ELSE IF command = CmdCreateAd THEN "handleCreateAd"
    ELSE IF command = CmdHelp THEN "getHelpMessage"
    ELSE IF command = CmdStats THEN "handleStats"
    ELSE IF command = CmdProducts THEN "handleProducts"
    ELSE "none"

\* What one call of executeCommand does up to its first suspension:
\*   pc         where the call is suspended
\*   handler    the command handler that was entered ("none" if none)
\*   reply      the message handed to sendWhatsAppMessage ("none" if none yet)
\*   setPending whether pendingConfirmations.set(from, ...) was executed
Outcome(pc, handler, reply, setPending) ==
    [pc |-> pc, handler |-> handler, reply |-> reply, setPending |-> setPending]

executeCommandUnconfirmedMutant(from, command, params, confirmed) ==
    IF command \in controlCommands /\ ~isAdmin(from)
    THEN Outcome("awaitSend", "none", "denied", FALSE)
    ELSE IF command \in riskyCommands
    THEN IF command = CmdBudget /\ Len(params) < 2
         THEN Outcome("awaitSend", "handleBudget", "usage", FALSE)
         ELSE Outcome("awaitFind", handlerOf(command), "none", FALSE)
    ELSE IF command = CmdCreateAd
    THEN IF Len(params) < 2
         THEN Outcome("awaitSend", "handleCreateAd", "usage", FALSE)
         ELSE Outcome("awaitCreateAd", "handleCreateAd", "none", FALSE)
    ELSE IF command = CmdHelp
    THEN Outcome("awaitSend", "getHelpMessage", "help", FALSE)
    ELSE IF command \in {CmdStats, CmdProducts}
    THEN Outcome("awaitOther", handlerOf(command), "none", FALSE)
    ELSE Outcome("awaitSend", "none", "unknownCommand", FALSE)

executeCommand(from, command, params, confirmed) ==
    IF command \in controlCommands /\ ~isAdmin(from)
    THEN Outcome("awaitSend", "none", "denied", FALSE)
    ELSE IF command \in riskyCommands
    THEN IF ~confirmed
         THEN Outcome("awaitSend", "none", "typeYes", TRUE)
         ELSE IF command = CmdBudget /\ Len(params) < 2
         THEN Outcome("awaitSend", "handleBudget", "usage", FALSE)
         ELSE Outcome("awaitFind", handlerOf(command), "none", FALSE)
    ELSE IF command = CmdCreateAd
    THEN IF Len(params) < 2
         THEN Outcome("awaitSend", "handleCreateAd", "usage", FALSE)
         ELSE Outcome("awaitCreateAd", "handleCreateAd", "none", FALSE)
    ELSE IF command = CmdHelp
    THEN Outcome("awaitSend", "getHelpMessage", "help", FALSE)
    ELSE IF command \in {CmdStats, CmdProducts}
    THEN Outcome("awaitOther", handlerOf(command), "none", FALSE)
    ELSE Outcome("awaitSend", "none", "unknownCommand", FALSE)

isAcceptTokenExactMutant(messageText) == messageText = T.YES

\* The accept token test of the gate: messageText.toUpperCase() === "YES"
isAcceptToken(messageText) == toUpperCase(messageText) = T.YES

\* One invocation of handleIncomingWhatsAppMessage, as suspended at an await.
\*   pending      the value read by pendingConfirmations.get(from) on entry
\*   route        how the message was classified
\*   inTry        the suspended call is inside the try block of executeCommand
\*   hadWorkflow  the sender had a stored workflow when the message arrived
Task(from, text, pending, command, params, route, o, inTry) ==
    [from |-> from, text |-> text, pending |-> pending,
     command |-> command, params |-> params, route |-> route,
     handler |-> o.handler, reply |-> o.reply, pc |-> o.pc, inTry |-> inTry,
     hadWorkflow |-> userWorkflows[from].workflow # "none"]

\* The branches of handleIncomingWhatsAppMessage, each from the entry of the
\* function to its first await: the task left suspended and the value of
\* pendingConfirmations left behind.

nonTextBranchDropsPendingMutant(from, messageText) ==
    [task |-> Task(from, messageText, pendingConfirmations[from], <<>>, <<>>, "NonText",
                   Outcome("awaitSend", "none", "textOnly", FALSE), FALSE),
     pending |-> [pendingConfirmations EXCEPT ![from] = NoPending]]

\* if (messageType !== "text")
nonTextBranch(from, messageText) ==
    [task |-> Task(from, messageText, pendingConfirmations[from], <<>>, <<>>, "NonText",
                   Outcome("awaitSend", "none", "textOnly", FALSE), FALSE),
     pending |-> pendingConfirmations]

confirmationBranchTrimMutant(from, messageText) ==
    LET pending == pendingConfirmations[from]
    IN  IF isAcceptToken(trim(messageText))
        THEN [task |-> Task(from, messageText, pending, pending.command, pending.params,
                            "Confirmed",
                            executeCommand(from, pending.command, pending.params, TRUE),
                            TRUE),
              pending |-> [pendingConfirmations EXCEPT ![from] = NoPending]]
        ELSE [task |-> Task(from, messageText, pending, <<>>, <<>>, "Cancelled",
                            Outcome("awaitSend", "none", "cancelled", FALSE), FALSE),
              pending |-> [pendingConfirmations EXCEPT ![from] = NoPending]]

\* if (pending) { pendingConfirmations.delete(from); YES ? execute : cancel }
confirmationBranch(from, messageText) ==
    LET pending == pendingConfirmations[from]
    IN  IF isAcceptToken(messageText)
        THEN [task |-> Task(from, messageText, pending, pending.command, pending.params,
                            "Confirmed",
                            executeCommand(from, pending.command, pending.params, TRUE),
                            TRUE),
              pending |-> [pendingConfirmations EXCEPT ![from] = NoPending]]
        ELSE [task |-> Task(from, messageText, pending, <<>>, <<>>, "Cancelled",
                            Outcome("awaitSend", "none", "cancelled", FALSE), FALSE),
              pending |-> [pendingConfirmations EXCEPT ![from] = NoPending]]

\* if (messageText.startsWith("/"))
commandBranch(from, messageText) ==
    LET parts   == splitWs(trim(messageText))
        command == toLowerCase(parts[1])
        params  == Tail(parts)
        o       == executeCommand(from, command, params, FALSE)
    IN  [task |-> Task(from, messageText, pendingConfirmations[from], command, params,
                       "StructuredCommand", o, TRUE),
         pending |-> IF o.setPending
                     THEN [pendingConfirmations EXCEPT ![from] =
                              [command |-> command, params |-> params]]
                     ELSE pendingConfirmations]

\* else: content creation, product edit or conversation
freeformBranch(from, messageText) ==
    [task |-> Task(from, messageText, pendingConfirmations[from], <<>>, <<>>, "Freeform",
                   Outcome("awaitFreeform", "none", "none", FALSE), FALSE),
     pending |-> pendingConfirmations]

handleIncomingWhatsAppMessageCommandFirstMutant(from, messageType, messageText) ==
    IF messageType # "text" THEN nonTextBranch(from, messageText)
    ELSE IF startsWith(messageText, <<"/">>) THEN commandBranch(from, messageText)
    ELSE IF pendingConfirmations[from] # NoPending
    THEN confirmationBranch(from, messageText)
    ELSE freeformBranch(from, messageText)

\* handleIncomingWhatsAppMessage from its entry to its first await
handleIncomingWhatsAppMessage(from, messageType, messageText) ==
    IF messageType # "text" THEN nonTextBranch(from, messageText)
    ELSE IF pendingConfirmations[from] # NoPending
    THEN confirmationBranch(from, messageText)
    ELSE IF startsWith(messageText, <<"/">>) THEN commandBranch(from, messageText)
    ELSE freeformBranch(from, messageText)

----------------------------------------------------------------------------
(* Workflow engine (src/workflows.js): data model *)

\* An amount as parseFloat reads it: <<integer part, fractional digits>>.
\* NoBudget stands for undefined; DefaultBudget is the literal 50 of the code.
NoBudget      == <<-1, <<>>>>
DefaultBudget == <<50, <<>>>>
IsFalsyBudget(b) == b = NoBudget \/ b = <<0, <<>>>>

\* workflow.data.  A key that is absent, undefined or null holds the unset
\* value of its type (the code only ever tests these keys for truthiness):
\* <<>> for texts and lists, 0 for the product id, "none" for enumerations.
EmptyData ==
    [productName |-> <<>>, product |-> 0, productList |-> <<>>, media |-> "none",
     objective |-> "none", objectiveName |-> "none", budget |-> NoBudget,
     duration |-> "none", startTime |-> <<>>, endTime |-> <<>>,
     audience |-> "none", copy |-> "none"]

\* { ...data, ...d }
merge(data, d) ==
    [k \in DOMAIN data |-> IF k \in DOMAIN d THEN d[k] ELSE data[k]]

\* userWorkflows.get(from) || null
NoWorkflow == [workflow |-> "none", step |-> 0, data |-> EmptyData]

\* The catalog is the external collaborator; its products are known by id.
Catalog == {1}
\* products.slice(0, 10) of a successful non-empty catalog fetch
FetchedList == <<1>>

\* Trailing zeros do not change the value parseFloat returns
RECURSIVE stripZeros(_)
stripZeros(ds) ==
    IF ds # <<>> /\ ds[Len(ds)] = "0" THEN stripZeros(SubSeq(ds, 1, Len(ds) - 1)) ELSE ds

\* messageText.match(/\$?(\d+(?:\.\d+)?)/) followed by parseFloat;
\* NoBudget when there is no match
budgetMatch(s) ==
    LET ds == {i \in 1..Len(s) : IsDigit(s[i])}
    IN  IF ds = {} THEN NoBudget
        ELSE LET i == SetMin(ds)
                 n == digitRun(s, i)
                 j == i + n
                 m == IF j < Len(s) /\ s[j] = "." THEN digitRun(s, j + 1) ELSE 0
             IN  <<parseInt(SubSeq(s, i, j - 1)), stripZeros(SubSeq(s, j + 1, j + m))>>

\* length of a match of \d{1,2}\/\d{1,2}\/\d{4} that starts at position i, 0 if none
dateMatchAt(s, i) ==
    LET ok(a, b) ==
            /\ digitRun(s, i) >= a
            /\ i + a <= Len(s) /\ s[i + a] = "/"
            /\ digitRun(s, i + a + 1) >= b
            /\ i + a + 1 + b <= Len(s) /\ s[i + a + 1 + b] = "/"
            /\ digitRun(s, i + a + b + 2) >= 4
    IN  IF ok(2, 2) THEN 10 ELSE IF ok(2, 1) THEN 9
        ELSE IF ok(1, 2) THEN 9 ELSE IF ok(1, 1) THEN 8 ELSE 0

\* messageText.match(/(\d{1,2}\/\d{1,2}\/\d{4})/g): the matches from position i on
RECURSIVE dateMatches(_, _)
dateMatches(s, i) ==
    IF i > Len(s) THEN <<>>
    ELSE IF dateMatchAt(s, i) > 0
    THEN <<SubSeq(s, i, i + dateMatchAt(s, i) - 1)>> \o dateMatches(s, i + dateMatchAt(s, i))
    ELSE dateMatches(s, i + 1)

\* The keywords the handlers look for in a lower-cased message
K ==
    [ongoing |-> <<"o","n","g","o","i","n","g">>,
     default |-> <<"d","e","f","a","u","l","t">>,
     pack |-> <<"p","a","c","k">>,
     video |-> <<"v","i","d","e","o">>,
     traffic |-> <<"t","r","a","f","f","i","c">>,
     website |-> <<"w","e","b","s","i","t","e">>,
     aware |-> <<"a","w","a","r","e","n","e","s","s">>,
     reach |-> <<"r","e","a","c","h">>,
     engage |-> <<"e","n","g","a","g","e","m","e","n","t">>,
     likes |-> <<"l","i","k","e","s">>,
     comments |-> <<"c","o","m","m","e","n","t","s">>,
     create |-> <<"c","r","e","a","t","e">>,
     edit |-> <<"e","d","i","t">>,
     listProducts |-> <<"l","i","s","t"," ","p","r","o","d","u","c","t","s">>,
     createCampaign |-> <<"c","r","e","a","t","e"," ","c","a","m","p","a","i","g","n">>,
     newCampaign |-> <<"n","e","w"," ","c","a","m","p","a","i","g","n">>,
     generateMedia |-> <<"g","e","n","e","r","a","t","e"," ","m","e","d","i","a">>,
     generateImage |-> <<"g","e","n","e","r","a","t","e"," ","i","m","a","g","e">>,
     createImage |-> <<"c","r","e","a","t","e"," ","i","m","a","g","e">>,
     createVideo |-> <<"c","r","e","a","t","e"," ","v","i","d","e","o">>,
     manageCampaign |-> <<"m","a","n","a","g","e"," ","c","a","m","p","a","i","g","n">>,
     campaigns |-> <<"c","a","m","p","a","i","g","n","s">>,
     analyze |-> <<"a","n","a","l","y","z","e">>,
     performance |-> <<"p","e","r","f","o","r","m","a","n","c","e">>,
     stats |-> <<"s","t","a","t","s">>,
     showStats |-> <<"s","h","o","w"," ","s","t","a","t","s">>,
     product |-> <<"p","r","o","d","u","c","t">>,
     quick |-> <<"q","u","i","c","k">>,
     for |-> <<"f","o","r">>]

\* objective and objectiveName of handleCampaignObjectiveSelection
objectiveOf(messageText) ==
    LET lower == trim(toLowerCase(messageText))
        num   == leadingDigit(messageText)
    IN  IF num = 2 \/ includes(lower, K.traffic) \/ includes(lower, K.website)
        THEN [objective |-> "LINK_CLICKS", objectiveName |-> "Traffic (Website visits)"]
        ELSE IF num = 3 \/ includes(lower, K.aware) \/ includes(lower, K.reach)
        THEN [objective |-> "REACH", objectiveName |-> "Awareness (Brand reach)"]
        ELSE IF num = 4 \/ includes(lower, K.engage) \/ includes(lower, K.likes)
                \/ includes(lower, K.comments)
        THEN [objective |-> "POST_ENGAGEMENT", objectiveName |-> "Engagement (Likes, comments)"]
        ELSE [objective |-> "CONVERSIONS", objectiveName |-> "Sales (Conversions)"]

\* budget, duration, startTime and endTime of handleCampaignBudgetSchedule
budgetScheduleOf(messageText) ==
    LET lower == trim(toLowerCase(messageText))
        m     == budgetMatch(messageText)
        dates == dateMatches(messageText, 1)
        range == ~(includes(lower, K.ongoing) \/ includes(lower, K.default))
                 /\ Len(dates) >= 2
    IN  [budget    |-> IF m # NoBudget THEN m ELSE DefaultBudget,
         duration  |-> IF range THEN "range" ELSE "ongoing",
         startTime |-> IF range THEN dates[1] ELSE <<>>,
         endTime   |-> IF range THEN dates[2] ELSE <<>>]

----------------------------------------------------------------------------
(* Workflow engine: one call of an exported entry point.                   *)
(* A call is evaluated on a context c:                                     *)
(*   stored  the entry of userWorkflows for the user (NoWorkflow if none)  *)
(*   local   the object the handler's parameter `workflow` refers to       *)
(*   alias   local and the stored entry are the same JavaScript object     *)
(*   sent    the messages handed to sendWhatsAppMessage, in order          *)
(*   calls   the calls made to external collaborators, in order            *)
(*   env     what the collaborators answer during this call                *)
(*   written the keys handed to updateWorkflowData during this call, each  *)
(*           with the value written last                                   *)

\* error is the err.message a failure report quotes
Msg(kind) == [kind |-> kind, objective |-> "none", budget |-> NoBudget, error |-> "none"]
Call(name) == [name |-> name, objective |-> "none", budget |-> NoBudget]

send(c, m) == [c EXCEPT !.sent = Append(@, m)]
call(c, k) == [c EXCEPT !.calls = Append(@, k)]

\* userWorkflows.set(from, { ...workflow, timestamp }): the map now holds a
\* fresh copy, which is no longer the object the caller holds
setUserWorkflow(c, workflow) == [c EXCEPT !.stored = workflow, !.alias = FALSE]

clearWorkflowKeepMutant(c) == [c EXCEPT !.alias = FALSE]

clearWorkflow(c) == [c EXCEPT !.stored = NoWorkflow, !.alias = FALSE]

updateWorkflowDataInPlaceMutant(c, d) ==
    IF c.stored.workflow = "none" THEN c
    ELSE [c EXCEPT !.stored.data = merge(c.stored.data, d),
                   !.local.data  = merge(c.local.data, d),
                   !.alias = FALSE,
                   !.written = d @@ @]

\* updateWorkflowData: writes the merged data into the stored object (and so
\* into `local` only when that is the same object), then stores a copy of it
updateWorkflowData(c, d) ==
    IF c.stored.workflow = "none" THEN c
    ELSE LET nd == merge(c.stored.data, d)
         IN  [c EXCEPT !.stored.data = nd,
                       !.local.data  = IF c.alias THEN nd ELSE @,
                       !.alias = FALSE,
                       !.written = d @@ @]

\* workflow.step = n; setUserWorkflow(from, workflow)
storeStep(c, n) ==
    LET w == [c.local EXCEPT !.step = n]
    IN  setUserWorkflow([c EXCEPT !.local = w], w)

\* findProductByName(messageText, true) as the workflow sees it: null when
\* getProductsCache throws (the catch block returns null) and for an empty
\* query, else what the catalog holds for the query
findProductByName(c, messageText) ==
    IF c.env.find = -1 \/ trim(toLowerCase(messageText)) = <<>> THEN 0 ELSE c.env.find

startCampaignWorkflowKeepDataMutant(c, productName) ==
    send([setUserWorkflow(c, [workflow |-> "create_campaign", step |-> 1,
                              data |-> merge(c.stored.data, [productName |-> productName])])
            EXCEPT !.started = TRUE],
         Msg("prompt1"))

\* startCampaignWorkflow(from, productName = null)
startCampaignWorkflow(c, productName) ==
    send([setUserWorkflow(c, [workflow |-> "create_campaign", step |-> 1,
                              data |-> merge(EmptyData, [productName |-> productName])])
            EXCEPT !.started = TRUE],
         Msg("prompt1"))

startMediaWorkflow(c) ==
    send(setUserWorkflow(c, [workflow |-> "generate_media", step |-> 1,
                             data |-> EmptyData]),
         Msg("mediaPrompt1"))

showMainMenuStepOneMutant(c) ==
    setUserWorkflow(send(c, Msg("menu")),
                    [workflow |-> "main_menu", step |-> 1, data |-> EmptyData])

showMainMenu(c) ==
    setUserWorkflow(send(c, Msg("menu")),
                    [workflow |-> "main_menu", step |-> 0, data |-> EmptyData])

\* createCampaignFromWorkflow
createCampaignFromWorkflow(c) ==
    LET data == c.local.data
        c1   == call(send(c, Msg("creating")), Call("fb:/me/adaccounts"))
        spec == [name |-> "createCampaignStructure",
                 objective |-> IF data.objective = "none" THEN "CONVERSIONS"
                               ELSE data.objective,
                 budget |-> IF IsFalsyBudget(data.budget) THEN DefaultBudget
                            ELSE data.budget]
    IN  IF c.env.create = "noAccount" THEN send(c1, Msg("createFailed"))
        ELSE IF c.env.create = "fail" THEN send(call(c1, spec), Msg("createFailed"))
        ELSE clearWorkflow(send(call(c1, spec), Msg("created")))

handleCampaignReviewCreateEditCreatesMutant(c, messageText) ==
    LET data  == c.local.data
        lower == trim(toLowerCase(messageText))
        num   == leadingDigit(messageText)
        c1    == send(c, [kind |-> "review",
                          objective |-> IF data.objectiveName = "none"
                                        THEN "Sales (Conversions)"
                                        ELSE data.objectiveName,
                          budget |-> IF IsFalsyBudget(data.budget) THEN DefaultBudget
                                     ELSE data.budget,
                          error |-> "none"])
    IN  IF num = 1 \/ lower = T.yes \/ lower = K.create
        THEN createCampaignFromWorkflow(c1)
        ELSE IF num = 2 \/ lower = K.edit
        THEN createCampaignFromWorkflow(send(c1, Msg("editMenu")))
        ELSE IF num = 3 \/ lower = T.cancel
        THEN send(clearWorkflow(c1), Msg("creationCancelled"))
        ELSE c1

\* Campaign step 5
handleCampaignReviewCreate(c, messageText) ==
    LET data  == c.local.data
        lower == trim(toLowerCase(messageText))
        num   == leadingDigit(messageText)
        c1    == send(c, [kind |-> "review",
                          objective |-> IF data.objectiveName = "none"
                                        THEN "Sales (Conversions)"
                                        ELSE data.objectiveName,
                          budget |-> IF IsFalsyBudget(data.budget) THEN DefaultBudget
                                     ELSE data.budget,
                          error |-> "none"])
    IN  IF num = 1 \/ lower = T.yes \/ lower = K.create
        THEN createCampaignFromWorkflow(c1)
        ELSE IF num = 2 \/ lower = K.edit
        THEN send(c1, Msg("editMenu"))
        ELSE IF num = 3 \/ lower = T.cancel
        THEN send(clearWorkflow(c1), Msg("creationCancelled"))
        ELSE c1

handleCampaignObjectiveSelectionStaysMutant(c, messageText) ==
    LET o  == objectiveOf(messageText)
        c1 == updateWorkflowData(c, o)
    IN  IF leadingDigit(messageText) = -1
        THEN send(c1, Msg("prompt3"))
        ELSE send(storeStep(c1, 4), [Msg("prompt4") EXCEPT !.objective = o.objectiveName])

\* Campaign step 3
handleCampaignObjectiveSelection(c, messageText) ==
    LET o  == objectiveOf(messageText)
        c1 == updateWorkflowData(c, o)
    IN  send(storeStep(c1, 4), [Msg("prompt4") EXCEPT !.objective = o.objectiveName])

RECURSIVE handleCampaignWorkflowStep(_, _)

handleCampaignBudgetScheduleNoDefaultsMutant(c, messageText) ==
    LET c1 == storeStep(updateWorkflowData(c, budgetScheduleOf(messageText)), 5)
        c2 == call(c1, Call("openai:audience"))
        c3 == call(c2, Call("openai:copy"))
        defaults == [audience |-> "default", copy |-> "default"]
        c4 == IF c1.local.data.product = 0
              \* product.name of an undefined product throws before any call
              THEN updateWorkflowData(c1, defaults)
              ELSE IF c.env.ai = "fail" THEN c2
              ELSE IF c.env.aiCopy = "fail" THEN updateWorkflowData(c3, defaults)
              ELSE updateWorkflowData(c3,
                     [audience |-> IF c.env.ai = "ok" THEN "ai"
                                   ELSE IF c.env.ai = "noJson" THEN "empty"
                                   ELSE "defaultWithInterests",
                      copy     |-> IF c.env.aiCopy = "ok" THEN "ai"
                                   ELSE IF c.env.aiCopy = "noJson" THEN "headlineOnly"
                                   ELSE "fallbackText"])
    IN  handleCampaignWorkflowStep(c4, <<>>)

\* Campaign step 4
handleCampaignBudgetSchedule(c, messageText) ==
    LET c1 == storeStep(updateWorkflowData(c, budgetScheduleOf(messageText)), 5)
        c2 == call(c1, Call("openai:audience"))
        c3 == call(c2, Call("openai:copy"))
        defaults == [audience |-> "default", copy |-> "default"]
        c4 == IF c1.local.data.product = 0
              \* product.name of an undefined product throws before any call
              THEN updateWorkflowData(c1, defaults)
              ELSE IF c.env.ai = "fail" THEN updateWorkflowData(c2, defaults)
              ELSE IF c.env.aiCopy = "fail" THEN updateWorkflowData(c3, defaults)
              ELSE updateWorkflowData(c3,
                     [audience |-> IF c.env.ai = "ok" THEN "ai"
                                   ELSE IF c.env.ai = "noJson" THEN "empty"
                                   ELSE "defaultWithInterests",
                      copy     |-> IF c.env.aiCopy = "ok" THEN "ai"
                                   ELSE IF c.env.aiCopy = "noJson" THEN "headlineOnly"
                                   ELSE "fallbackText"])
    IN  handleCampaignWorkflowStep(c4, <<>>)

handleCampaignMediaSelectionFailureAdvancesMutant(c, messageText) ==
    LET lower == trim(toLowerCase(messageText))
        num   == leadingDigit(messageText)
        mediaType == IF num = 1 \/ includes(lower, K.pack) THEN "pack"
                     ELSE IF num = 3 \/ includes(lower, K.video) THEN "video"
                     ELSE "single"
        c1 == call(send(c, Msg("generating")),
                   Call(IF mediaType = "video" THEN "generateVideo" ELSE "generateImage"))
        c2 == call(updateWorkflowData(c1, [media |-> mediaType]), Call("uploadWhatsAppMedia"))
    IN  IF num = 4 \/ lower = T.skip \/ lower = T.no
        THEN handleCampaignWorkflowStep(storeStep(c, 3), <<>>)
        ELSE IF c.local.data.product = 0
        THEN handleCampaignWorkflowStep(storeStep(send(c, Msg("productMissing")), 1), <<>>)
        ELSE IF c.env.media = "genFail"
        THEN send(c1, [Msg("mediaFailed") EXCEPT !.error = "generation failed"])
        ELSE IF c.env.media = "uploadFail"
        THEN send(storeStep(c2, 3), [Msg("mediaFailed") EXCEPT !.error = "upload failed"])
        ELSE send(storeStep(send(c2, Msg("preview")), 3), Msg("prompt3"))

\* Campaign step 2
handleCampaignMediaSelection(c, messageText) ==
    LET lower == trim(toLowerCase(messageText))
        num   == leadingDigit(messageText)
        mediaType == IF num = 1 \/ includes(lower, K.pack) THEN "pack"
                     ELSE IF num = 3 \/ includes(lower, K.video) THEN "video"
                     ELSE "single"
        c1 == call(send(c, Msg("generating")),
                   Call(IF mediaType = "video" THEN "generateVideo" ELSE "generateImage"))
        c2 == call(updateWorkflowData(c1, [media |-> mediaType]), Call("uploadWhatsAppMedia"))
    IN  IF num = 4 \/ lower = T.skip \/ lower = T.no
        THEN handleCampaignWorkflowStep(storeStep(c, 3), <<>>)
        ELSE IF c.local.data.product = 0
        THEN handleCampaignWorkflowStep(storeStep(send(c, Msg("productMissing")), 1), <<>>)
        ELSE IF c.env.media = "genFail"
        THEN send(c1, [Msg("mediaFailed") EXCEPT !.error = "generation failed"])
        ELSE IF c.env.media = "uploadFail"
        THEN send(c2, [Msg("mediaFailed") EXCEPT !.error = "upload failed"])
        ELSE send(storeStep(send(c2, Msg("preview")), 3), Msg("prompt3"))

\* Campaign step 1
handleCampaignProductSelection(c, messageText) ==
    LET lower == trim(toLowerCase(messageText))
        isList == lower = K.listProducts \/ lower = T.list
        cl == IF isList THEN call(c, Call("wooFetch:/products")) ELSE c
        num == leadingNumber(messageText)
        list == cl.local.data.productList
        picked(id) == [product |-> id, productName |-> <<"p", DigitChars[id + 1]>>]
        cf == call(cl, Call("findProductByName"))
        found == findProductByName(cf, messageText)
    IN  IF isList /\ c.env.list = "fail" THEN send(cl, Msg("couldNotFetch"))
        ELSE IF isList /\ c.env.list = "ok"
        THEN updateWorkflowData(send(cl, Msg("productList")), [productList |-> FetchedList])
        ELSE IF num # -1 /\ list # <<>> /\ num - 1 >= 0 /\ num - 1 < Len(list)
        THEN handleCampaignWorkflowStep(
                 storeStep(updateWorkflowData(cl, picked(list[num])), 2), <<>>)
        ELSE IF found # 0
        THEN send(storeStep(updateWorkflowData(cf, picked(found)), 2), Msg("prompt2"))
        ELSE send(cf, Msg("productNotFound"))

\* The step dispatcher of CreateCampaign: switch (workflow.step)
handleCampaignWorkflowStep(c, messageText) ==
    IF c.local.step = 1 THEN handleCampaignProductSelection(c, messageText)
    ELSE IF c.local.step = 2 THEN handleCampaignMediaSelection(c, messageText)
    ELSE IF c.local.step = 3 THEN handleCampaignObjectiveSelection(c, messageText)
    ELSE IF c.local.step = 4 THEN handleCampaignBudgetSchedule(c, messageText)
    ELSE IF c.local.step = 5 THEN handleCampaignReviewCreate(c, messageText)
    ELSE c

\* Main menu
handleMainMenuSelection(c, messageText) ==
    LET lower == trim(toLowerCase(messageText))
        num   == leadingDigit(messageText)
    IN  IF num = 1 \/ includes(lower, K.createCampaign) \/ includes(lower, K.newCampaign)
        THEN startCampaignWorkflow(c, <<>>)
        ELSE IF num = 2 \/ includes(lower, K.generateMedia) \/ includes(lower, K.createImage)
                \/ includes(lower, K.createVideo)
        THEN startMediaWorkflow(c)
        ELSE IF num = 3 \/ includes(lower, K.manageCampaign) \/ includes(lower, K.campaigns)
        THEN clearWorkflow(send(c, Msg("manageCampaigns")))
        ELSE IF num = 4 \/ includes(lower, K.analyze) \/ includes(lower, K.performance)
                \/ includes(lower, K.stats)
        THEN clearWorkflow(send(c, Msg("analyzePerformance")))
        ELSE IF num = 5 \/ includes(lower, K.product)
        THEN clearWorkflow(send(c, Msg("manageProducts")))
        ELSE IF num = 6 \/ includes(lower, K.quick)
        THEN clearWorkflow(send(c, Msg("quickActions")))
        ELSE send(c, Msg("pleaseReply"))

\* handleWorkflowStep: switch (workflow.workflow)
handleWorkflowStep(c, messageText) ==
    IF c.local.workflow = "main_menu" THEN handleMainMenuSelection(c, messageText)
    ELSE IF c.local.workflow = "create_campaign"
    THEN handleCampaignWorkflowStep(c, messageText)
    ELSE IF c.local.workflow = "generate_media"
    THEN clearWorkflow(send(c, Msg("mediaComingSoon")))
    ELSE IF c.local.workflow \in {"manage_campaigns", "analyze_performance",
                                   "manage_products"}
    THEN clearWorkflow(send(c, Msg("useCommands")))
    ELSE showMainMenu(c)

isBack(messageText) ==
    LET lower == trim(toLowerCase(messageText))
    IN  lower = T.back \/ startsWith(lower, T.slashBack)

isCancelSlashOnlyMutant(messageText) ==
    startsWith(trim(toLowerCase(messageText)), <<"/">> \o T.cancel)

isCancel(messageText) ==
    LET lower == trim(toLowerCase(messageText))
    IN  lower = T.cancel \/ startsWith(lower, <<"/">> \o T.cancel)

isMenu(messageText) ==
    LET lower == trim(toLowerCase(messageText))
    IN  lower = T.menu \/ startsWith(lower, <<"/">> \o T.menu)

isWorkflowNavigation(text) == isBack(text) \/ isCancel(text) \/ isMenu(text)

handleWorkflowNavigationFromStepOneMutant(c, messageText) ==
    IF isBack(messageText)
    THEN IF c.stored.workflow # "none" /\ c.stored.step >= 1
         THEN handleWorkflowStep(send(storeStep(c, c.local.step - 1), Msg("goingBack")), <<>>)
         ELSE send(c, Msg("cantGoBack"))
    ELSE IF isCancel(messageText) THEN send(clearWorkflow(c), Msg("cancelled"))
    ELSE IF isMenu(messageText) THEN showMainMenu(clearWorkflow(c))
    ELSE c

\* handleWorkflowNavigation; c.local is what getUserWorkflow(from) returned
handleWorkflowNavigation(c, messageText) ==
    IF isBack(messageText)
    THEN IF c.stored.workflow # "none" /\ c.stored.step > 1
         THEN handleWorkflowStep(send(storeStep(c, c.local.step - 1), Msg("goingBack")), <<>>)
         ELSE send(c, Msg("cantGoBack"))
    ELSE IF isCancel(messageText) THEN send(clearWorkflow(c), Msg("cancelled"))
    ELSE IF isMenu(messageText) THEN showMainMenu(clearWorkflow(c))
    ELSE c

isMenuTrigger(text) ==
    trim(toLowerCase(text)) \in {T.menu, <<"h","i">>, T.hello, <<"s","t","a","r","t">>,
                                 <<"h","e","l","p">>, <<"/">> \o T.menu,
                                 <<"/","s","t","a","r","t">>, T.help}

isShortcut(text) ==
    LET lower == toLowerCase(text)
    IN  includes(lower, K.createCampaign) \/ includes(lower, K.generateImage)
        \/ includes(lower, K.showStats) \/ includes(lower, K.listProducts)

\* length of the run of white space that starts at position i of s
RECURSIVE spaceRun(_, _)
spaceRun(s, i) ==
    IF i > Len(s) \/ ~IsSpace(s[i]) THEN 0 ELSE 1 + spaceRun(s, i + 1)

\* lower.match(/for\s+([^$]+)/), the capture trimmed; <<>> when there is no
\* match (productName null) or the capture is blank
shortcutProduct(lower) ==
    LET after(i) == i + 3 + spaceRun(lower, i + 3)
        \* the capture can start after the white space ...
        direct(i) == after(i) <= Len(lower) /\ lower[after(i)] # "$"
        \* ... or, by backtracking, on the last of two or more white-space characters
        cands == {i \in 1..(Len(lower) - 3) :
                    /\ SubSeq(lower, i, i + 2) = K.for
                    /\ spaceRun(lower, i + 3) >= 1
                    /\ (direct(i) \/ spaceRun(lower, i + 3) >= 2)}
    IN  IF cands = {} THEN <<>>
        ELSE LET i == SetMin(cands)
                 stops == {j \in after(i)..Len(lower) : lower[j] = "$"}
                 last == IF stops = {} THEN Len(lower) ELSE SetMin(stops) - 1
             IN  IF direct(i) THEN trim(SubSeq(lower, after(i), last)) ELSE <<>>

\* handleShortcut; c.timer receives the budget of the setTimeout it arms
handleShortcut(c, messageText) ==
    LET lower  == toLowerCase(messageText)
        budget == budgetMatch(messageText)
    IN  IF includes(lower, K.createCampaign)
        THEN [startCampaignWorkflow(c, shortcutProduct(lower))
                EXCEPT !.timer = IF IsFalsyBudget(budget) THEN NoBudget ELSE budget]
        ELSE IF includes(lower, K.generateImage) \/ includes(lower, K.createImage)
        THEN startMediaWorkflow(c)
        ELSE IF includes(lower, K.showStats) \/ includes(lower, K.stats)
        THEN call(c, Call("executeCommand:/stats"))
        ELSE IF includes(lower, K.listProducts)
        THEN call(c, Call("executeCommand:/products"))
        ELSE showMainMenu(c)

----------------------------------------------------------------------------
(* Entity resolver: findProductByName over the product catalog.            *)
(* A score is a fraction <<numerator, denominator>>, denominator > 0.      *)

ratLeq(a, b) == a[1] * b[2] <= b[1] * a[2]
ratAdd(a, b) == <<a[1] * b[2] + b[1] * a[2], a[2] * b[2]>>
ratMul(a, b) == <<a[1] * b[1], a[2] * b[2]>>

\* s.split(/\s+/) for any string: white space at either end leaves an empty
\* word there, and the empty string is one empty word
RECURSIVE splitWords(_)
splitWords(s) ==
    LET sp == {i \in 1..Len(s) : IsSpace(s[i])}
    IN  IF sp = {} THEN <<s>>
        ELSE LET i == SetMin(sp)
             IN  <<SubSeq(s, 1, i - 1)>>
                 \o splitWords(SubSeq(s, i + spaceRun(s, i), Len(s)))

\* words1.filter(w => words2.includes(w)).length
commonWords(words1, words2) ==
    Cardinality({i \in 1..Len(words1) : \E j \in 1..Len(words2) : words2[j] = words1[i]})

Max(a, b) == IF a >= b THEN a ELSE b
Min(a, b) == IF a <= b THEN a ELSE b

calculateSimilarity(str1, str2) ==
    LET s1 == toLowerCase(str1)
        s2 == toLowerCase(str2)
        words1 == splitWords(s1)
        words2 == splitWords(s2)
        common == commonWords(words1, words2)
        maxLen == Max(Len(s1), Len(s2))
        minLen == Min(Len(s1), Len(s2))
        matches == Cardinality({i \in 1..minLen : s1[i] = s2[i]})
    IN  IF s1 = s2 THEN <<1, 1>>
        ELSE IF includes(s1, s2) \/ includes(s2, s1) THEN <<8, 10>>
        ELSE IF common > 0 THEN <<common, Max(Len(words1), Len(words2))>>
        ELSE IF maxLen = 0 THEN <<1, 1>>
        ELSE <<matches, maxLen>>

\* totalScore of one product for the search name
totalScore(searchName, p) ==
    LET productName == toLowerCase(p.name)
        sku == toLowerCase(p.sku)
        nameScore == calculateSimilarity(searchName, productName)
        skuScore == IF sku = <<>> THEN <<0, 1>>
                    ELSE ratMul(calculateSimilarity(searchName, sku), <<7, 10>>)
        searchWords == splitWords(searchName)
        productWords == splitWords(productName)
        wordMatchBonus == ratMul(<<commonWords(searchWords, productWords), Len(searchWords)>>,
                                 <<2, 10>>)
    IN  ratAdd(IF ratLeq(skuScore, nameScore) THEN nameScore ELSE skuScore, wordMatchBonus)

\* no product: null
NoMatch == [found |-> 0, score |-> <<0, 1>>]

\* findProductByName(name) on the catalog `products` that getProductsCache
\* returns (fetched = FALSE: the fetch threw): the position in the catalog
\* of the product returned, 0 for null, with the score computed for it.
\* The sort is stable, so of the products with the highest score the first
\* in the catalog is the best.
findProductByNameScored(products, name, fetched) ==
    LET searchName == trim(toLowerCase(name))
        score(i) == totalScore(searchName, products[i])
        best == SetMin({i \in 1..Len(products) :
                           \A j \in 1..Len(products) : ratLeq(score(j), score(i))})
    IN  IF ~fetched \/ searchName = <<>> \/ products = <<>> THEN NoMatch
        ELSE IF ratLeq(<<5, 10>>, score(best))
        THEN [found |-> best, score |-> score(best)]
        ELSE NoMatch

\* scored.sort((a, b) => b.score - a.score): the positions in S by descending
\* score, catalog order kept among equal scores
RECURSIVE sortByScore(_, _)
sortByScore(S, score) ==
    IF S = {} THEN <<>>
    ELSE LET best == SetMin({i \in S : \A j \in S : ratLeq(score[j], score[i])})
         IN  <<best>> \o sortByScore(S \ {best}, score)

\* findProductCandidates(name, limit): the catalog positions of the products
\* returned, in the order returned; [] when the fetch threw.  The score is
\* the name similarity alone, and the empty search name is not set aside.
findProductCandidates(products, name, limit, fetched) ==
    LET searchName == trim(toLowerCase(name))
        score == [i \in 1..Len(products) |->
                    calculateSimilarity(searchName, toLowerCase(products[i].name))]
        sorted == sortByScore(1..Len(products), score)
        top == SubSeq(sorted, 1, Min(limit, Len(sorted)))
    IN  IF ~fetched THEN <<>>
        ELSE SelectSeq(top, LAMBDA i : ratLeq(<<3, 10>>, score[i]))

----------------------------------------------------------------------------
(* State *)

\* What the collaborators answer during one call of the workflow engine:
\*   find    the catalog look-up of findProductByName for a non-empty query:
\*           a product id, 0 for no match, -1 when the catalog fetch fails
\*   list    the catalog fetch of "list products"
\*   media   generation and preview upload at step 2
\*   ai, aiCopy  the two completions of step 4
\*   create  campaign creation at step 5
NominalEnv ==
    [find |-> 1, list |-> "ok", media |-> "ok", ai |-> "ok", aiCopy |-> "ok",
     create |-> "ok"]

\* One call consults at most one kind of collaborator, so the answers are
\* varied one kind at a time.
AllEnvs ==
    {NominalEnv}
    \cup {[NominalEnv EXCEPT !.find = f] : f \in {0, -1} \cup Catalog}
    \cup {[NominalEnv EXCEPT !.list = l] : l \in {"empty", "fail"}}
    \cup {[NominalEnv EXCEPT !.media = m] : m \in {"genFail", "uploadFail"}}
    \cup {[NominalEnv EXCEPT !.ai = a] : a \in {"noJson", "badJson", "fail"}}
    \cup {[NominalEnv EXCEPT !.aiCopy = b] : b \in {"noJson", "badJson", "fail"}}
    \cup {[NominalEnv EXCEPT !.create = k] : k \in {"noAccount", "fail"}}

\* The answers a call can consult when it starts on the stored workflow w:
\* step 1 reads the catalog (and, through the chained step 2, generates
\* media), steps 2 and 3 (the latter through `back`) generate media, step 4
\* and step 5 (through `back`) ask for audience and copy, step 5 creates.
Envs(w) ==
    IF w.workflow # "create_campaign" THEN {NominalEnv}
    ELSE IF w.step = 1
    THEN {e \in AllEnvs : e.ai = "ok" /\ e.aiCopy = "ok" /\ e.create = "ok"}
    ELSE IF w.step \in {2, 3}
    THEN {e \in AllEnvs : e = [NominalEnv EXCEPT !.media = e.media]}
    ELSE IF w.step = 4
    THEN {e \in AllEnvs : e = [NominalEnv EXCEPT !.ai = e.ai, !.aiCopy = e.aiCopy]}
    ELSE {e \in AllEnvs : e = [NominalEnv EXCEPT !.ai = e.ai, !.aiCopy = e.aiCopy,
                                                  !.create = e.create]}

\* Every collaborator answers, the catalog knowing the product or not
AnsweringEnvs == {NominalEnv, [NominalEnv EXCEPT !.find = 0]}

\* The context in which an entry point starts for a user whose stored
\* workflow is w; the caller hands the stored object itself to the engine.
Ctx(w, env) ==
    [stored |-> w, local |-> w, alias |-> TRUE, sent |-> <<>>, calls |-> <<>>,
     env |-> env, started |-> FALSE, timer |-> NoBudget, written |-> <<>>]

\* resolution before any call of findProductByName: productCache is empty
NoResolution == [products |-> <<>>, name |-> <<>>, fetched |-> FALSE, called |-> FALSE,
                 result |-> NoMatch, candidates |-> <<>>]

\* lastTurn: the entry point last called for the user, its text, what it
\* sent and called, the workflow kind and step it found (pre), adv = N when
\* it advanced CreateCampaign from N to N+1, whether the call before was
\* handleWorkflowNavigation with the text "cancel" (afterCancel), and seq,
\* which alternates between 0 and 1 from one call to the next
NoTurn ==
    [op |-> "none", text |-> <<>>, sent |-> <<>>, calls |-> <<>>, adv |-> 0,
     pre |-> [workflow |-> "none", step |-> 0],
     afterCancel |-> FALSE, seq |-> 0]

\* no product: null
NoProduct == [id |-> 0, name |-> <<>>]

\* conversationContext has no entry for the user
NoContext ==
    [present |-> FALSE, lastProduct |-> NoProduct, lastAction |-> "none",
     lastProductList |-> <<>>, candidates |-> <<>>, conversationHistory |-> <<>>,
     timestamp |-> 0]

\* lastRef: the handler that ran last for the user (op), its text, the
\* product name the text was resolved to (name) and the step that resolved
\* it (by), the product the handler then worked on (product), the numbered
\* list it sent (shown), and the time of the message (at)
NoRef == [op |-> "none", text |-> <<>>, name |-> <<>>, by |-> "none",
          product |-> NoProduct, shown |-> <<>>, at |-> 0]

NoScenario ==
    [stage |-> 0, o |-> <<>>, b |-> NoBudget,
     shownObjective |-> "none", shownBudget |-> NoBudget,
     createdObjective |-> "none", createdBudget |-> NoBudget]

InitStores ==
    /\ pendingConfirmations = [u \in Users |-> NoPending]
    /\ userWorkflows = [u \in Users |-> NoWorkflow]
    /\ tasks = EmptyBag
    /\ budgetTimer = [u \in Users |-> {}]
    /\ lastTurn = [u \in Users |-> NoTurn]
    /\ scenario = [u \in Users |-> NoScenario]
    /\ resolution = NoResolution
    /\ conversationContext = [u \in Users |-> NoContext]
    /\ userConversations = [u \in Users |-> <<>>]
    /\ recorded = [u \in Users |-> 0]
    /\ clock = 0
    /\ lastRef = [u \in Users |-> NoRef]
    /\ escaped = FALSE
    /\ poll = [pc |-> "request", attempt |-> 0, polls |-> 0, download |-> -1,
               seen |-> [status |-> 0, state |-> "undefined", videoUri |-> FALSE],
               outcome |-> "none"]

\* ADMIN_NUMBERS is read from the environment once, at start-up
Init == adminNumbers \in AdminConfigs /\ InitStores

\* the workflow engine never reads the admin list
InitWorkflow == adminNumbers = {} /\ InitStores

----------------------------------------------------------------------------
(* Webhook: handleIncomingWhatsAppMessage runs for each message without     *)
(* waiting for the previous one (value.messages.forEach(async ...)), so     *)
(* invocations interleave at their awaits.                                  *)

Replace(t, t2) == (tasks (-) SetToBag({t})) (+) SetToBag({t2})
Finish(t) == tasks (-) SetToBag({t})

RouterFrame == UNCHANGED <<adminNumbers, userWorkflows, budgetTimer, lastTurn, scenario,
                           resolution, contextVars, escaped, poll>>
ResumeFrame == UNCHANGED <<adminNumbers, pendingConfirmations, userWorkflows,
                           budgetTimer, lastTurn, scenario, resolution, contextVars, poll>>

\* A message arrives: the handler runs up to its first await
Deliver(from, messageType, messageText) ==
    /\ BagCardinality(tasks) < MaxInFlight
    /\ LET r == handleIncomingWhatsAppMessage(from, messageType, messageText)
       IN  /\ tasks' = tasks (+) SetToBag({r.task})
           /\ pendingConfirmations' = r.pending
    /\ RouterFrame

\* sendWhatsAppMessage returns or throws; a throw inside the try block of
\* executeCommand is reported by its catch block, any other throw escapes
\* handleIncomingWhatsAppMessage, which has no try block around its sends
SendCompletes(t) ==
    /\ t.pc = "awaitSend"
    /\ \E ok \in BOOLEAN :
         /\ tasks' = IF ok \/ ~t.inTry THEN Finish(t)
                     ELSE Replace(t, [t EXCEPT !.reply = "couldntComplete", !.inTry = FALSE])
         /\ escaped' = (~ok /\ ~t.inTry)
    /\ ResumeFrame

\* findEntityByNameOrId returns (it catches its own failures) in
\* handlePause, handleResume and handleBudget
FindEntityReturns(t) ==
    /\ t.pc = "awaitFind"
    /\ \E found \in BOOLEAN :
         tasks' = Replace(t,
                    IF ~found THEN [t EXCEPT !.pc = "awaitSend", !.reply = "notFound"]
                    ELSE IF t.handler = "handleBudget" THEN [t EXCEPT !.pc = "awaitAdsets"]
                    ELSE [t EXCEPT !.pc = "awaitFbPost"])
    /\ ResumeFrame
    /\ UNCHANGED escaped

\* the ad-set lookup of handleBudget returns
AdsetsReturn(t) ==
    /\ t.pc = "awaitAdsets"
    /\ \E r \in {"some", "none", "fail"} :
         tasks' = Replace(t,
                    IF r = "some" THEN [t EXCEPT !.pc = "awaitFbPost"]
                    ELSE IF r = "none" THEN [t EXCEPT !.pc = "awaitSend", !.reply = "noAdsets"]
                    ELSE [t EXCEPT !.pc = "awaitSend", !.reply = "couldntComplete",
                                   !.inTry = FALSE])
    /\ ResumeFrame
    /\ UNCHANGED escaped

\* the POST that pauses, resumes or re-budgets on the ad platform returns
FbPostReturns(t) ==
    /\ t.pc = "awaitFbPost"
    /\ \E ok \in BOOLEAN :
         tasks' = Replace(t,
                    IF ok THEN [t EXCEPT !.pc = "awaitSend", !.reply = "done"]
                    ELSE [t EXCEPT !.pc = "awaitSend", !.reply = "couldntComplete",
                                   !.inTry = FALSE])
    /\ ResumeFrame
    /\ UNCHANGED escaped

\* handleCreateAd runs to its reply
CreateAdRuns(t) ==
    /\ t.pc = "awaitCreateAd"
    /\ \E ok \in BOOLEAN :
         tasks' = Replace(t,
                    IF ok THEN [t EXCEPT !.pc = "awaitSend", !.reply = "adCreated"]
                    ELSE [t EXCEPT !.pc = "awaitSend", !.reply = "couldntComplete",
                                   !.inTry = FALSE])
    /\ ResumeFrame
    /\ UNCHANGED escaped

\* a read-only command handler (/stats, /products) runs to its reply
OtherHandlerRuns(t) ==
    /\ t.pc = "awaitOther"
    /\ \E ok \in BOOLEAN :
         tasks' = Replace(t,
                    IF ok THEN [t EXCEPT !.pc = "awaitSend", !.reply = "result"]
                    ELSE [t EXCEPT !.pc = "awaitSend", !.reply = "couldntComplete",
                                   !.inTry = FALSE])
    /\ ResumeFrame
    /\ UNCHANGED escaped

\* the free-form branch (content creation, product edit, chat) runs to its end
FreeformRuns(t) ==
    /\ t.pc = "awaitFreeform"
    /\ tasks' = Finish(t)
    /\ ResumeFrame
    /\ UNCHANGED escaped

----------------------------------------------------------------------------
(* Workflow engine: the exported entry points as operations *)

lastReview(sent) ==
    LET I == {i \in 1..Len(sent) : sent[i].kind = "review"}
    IN  IF I = {} THEN Msg("none") ELSE sent[SetMax(I)]

lastCreate(calls) ==
    LET I == {i \in 1..Len(calls) : calls[i].name = "createCampaignStructure"}
    IN  IF I = {} THEN Call("none") ELSE calls[SetMax(I)]

hasMsg(sent, kind) == \E i \in 1..Len(sent) : sent[i].kind = kind
hasCall(calls, name) == \E i \in 1..Len(calls) : calls[i].name = name

\* N if a call of the step handler took CreateCampaign from step N to N+1
advancedFrom(op, pre, post) ==
    IF /\ op = "step"
       /\ pre.workflow = "create_campaign"
       /\ post.workflow = "create_campaign"
       /\ post.step = pre.step + 1
    THEN pre.step ELSE 0

\* Progress of the user's CreateCampaign run along the path
\* start, product resolved by name, "4", objective choice o, budget b, "1"
scenarioNext(u, op, text, r) ==
    LET old == scenario[u]
    IN  IF r.started THEN [NoScenario EXCEPT !.stage = 1]
        ELSE IF op # "step" THEN NoScenario
        ELSE IF old.stage = 1 /\ hasMsg(r.sent, "prompt2") THEN [old EXCEPT !.stage = 2]
        ELSE IF old.stage = 2 /\ text = T.d4 THEN [old EXCEPT !.stage = 3]
        ELSE IF old.stage = 3 /\ text \in {T.d1, T.d2, T.d3, T.d4}
        THEN [old EXCEPT !.stage = 4, !.o = text]
        ELSE IF old.stage = 4 /\ budgetMatch(text) # NoBudget
        THEN [old EXCEPT !.stage = 5, !.b = budgetMatch(text),
                         !.shownObjective = lastReview(r.sent).objective,
                         !.shownBudget = lastReview(r.sent).budget]
        ELSE IF old.stage = 5 /\ text = T.d1
        THEN [old EXCEPT !.stage = 6,
                         !.createdObjective = lastCreate(r.calls).objective,
                         !.createdBudget = lastCreate(r.calls).budget]
        ELSE NoScenario

Commit(u, op, text, r) ==
    /\ userWorkflows' = [userWorkflows EXCEPT ![u] = r.stored]
    /\ budgetTimer' = [budgetTimer EXCEPT
                          ![u] = IF r.timer = NoBudget THEN @ ELSE @ \cup {r.timer}]
    /\ lastTurn' = [lastTurn EXCEPT
                       ![u] = [op |-> op, text |-> text,
                               sent |-> r.sent, calls |-> r.calls,
                               adv |-> advancedFrom(op, userWorkflows[u], r.stored),
                               pre |-> [workflow |-> userWorkflows[u].workflow,
                                        step |-> userWorkflows[u].step],
                               afterCancel |-> /\ lastTurn[u].op = "nav"
                                               /\ lastTurn[u].text = T.cancel,
                               seq |-> 1 - lastTurn[u].seq]]
    /\ scenario' = [scenario EXCEPT ![u] = scenarioNext(u, op, text, r)]
    /\ UNCHANGED <<adminNumbers, pendingConfirmations, tasks, resolution, contextVars,
                   escaped, poll>>

\* handleWorkflowStep(from, messageText, getUserWorkflow(from))
HandleWorkflowStepOp(u, text, env) ==
    /\ userWorkflows[u].workflow # "none"
    /\ Commit(u, "step", text, handleWorkflowStep(Ctx(userWorkflows[u], env), text))

\* handleWorkflowNavigation(from, messageText)
HandleWorkflowNavigationOp(u, text, env) ==
    /\ u \in Users
    /\ Commit(u, "nav", text, handleWorkflowNavigation(Ctx(userWorkflows[u], env), text))

\* showMainMenu(from)
ShowMainMenuOp(u) ==
    /\ u \in Users
    /\ Commit(u, "menu", <<>>, showMainMenu(Ctx(userWorkflows[u], NominalEnv)))

\* handleShortcut(from, messageText, executeCommand)
HandleShortcutOp(u, text) ==
    /\ u \in Users
    /\ Commit(u, "shortcut", text, handleShortcut(Ctx(userWorkflows[u], NominalEnv), text))

\* the callback of the setTimeout armed by handleShortcut
TimerFires(u) ==
    /\ \E b \in budgetTimer[u] :
         /\ budgetTimer' = [budgetTimer EXCEPT ![u] = @ \ {b}]
         /\ userWorkflows' =
               [userWorkflows EXCEPT
                  ![u] = IF @.workflow = "create_campaign"
                         THEN updateWorkflowData(Ctx(@, NominalEnv), [budget |-> b]).stored
                         ELSE @]
    /\ scenario' = [scenario EXCEPT ![u] = NoScenario]
    /\ UNCHANGED <<adminNumbers, pendingConfirmations, tasks, lastTurn, resolution,
                   contextVars, escaped, poll>>

----------------------------------------------------------------------------
(* Entity resolver: one call of findProductByName *)

\* product names and SKUs of the catalogs explored, and the names asked for
ProductNames == {<<"a"," ","b">>, <<"b"," ","a">>, <<"a","x","y">>, <<"x","y","z">>}
ProductSkus  == {<<>>, <<"a","b","d">>}
Products     == [name : ProductNames, sku : ProductSkus]
Catalogs     == {<<p>> : p \in Products}
                \cup {<<p, q>> : p, q \in {r \in Products : r.sku = <<>>}}
Queries      == {<<"a"," ","b">>, <<"A"," ","B"," ">>, <<"a","b","c">>, <<" ">>,
                 <<"a"," ","c">>}

\* the default of the parameter limit of findProductCandidates
DefaultLimit == 5

\* getProductsCache refreshes productCache from the store
CacheRefreshed(products) ==
    /\ resolution' = [NoResolution EXCEPT !.products = products]
    /\ UNCHANGED <<adminNumbers, pendingConfirmations, userWorkflows, tasks,
                   budgetTimer, lastTurn, scenario, contextVars, escaped, poll>>

\* a name is resolved against productCache: findProductByName, and
\* findProductCandidates with its default limit
FindProductByNameOp(name, fetched) ==
    LET products == resolution.products
    IN  /\ resolution' = [products |-> products, name |-> name, fetched |-> fetched,
                          called |-> TRUE,
                          result |-> findProductByNameScored(products, name, fetched),
                          candidates |-> findProductCandidates(products, name,
                                                               DefaultLimit, fetched)]
        /\ UNCHANGED <<adminNumbers, pendingConfirmations, userWorkflows, tasks,
                       budgetTimer, lastTurn, scenario, contextVars, escaped, poll>>

----------------------------------------------------------------------------
(* Conversation memory (src/unnamed/part_000:613-617, 1055-1130) *)

MAX_CONVERSATION_HISTORY == 20

\* the memory the handlers read and write: conversationContext (ctx),
\* userConversations (conv) and the count of recorded messages (n)
Memory == [ctx |-> conversationContext, conv |-> userConversations, n |-> recorded]

\* the entry is created on first access; an entry found is returned as it is
getConversationContext(ctx, from, now) ==
    IF ctx[from].present THEN ctx
    ELSE [ctx EXCEPT ![from] = [NoContext EXCEPT !.present = TRUE, !.timestamp = now]]

addToConversationHistoryEvictNewestMutant(m, from, role, now) ==
    LET pushed  == Append(m.conv[from], [role |-> role, content |-> m.n[from] + 1])
        history == IF Len(pushed) > MAX_CONVERSATION_HISTORY
                   THEN SubSeq(pushed, 1, MAX_CONVERSATION_HISTORY) ELSE pushed
        ctx     == getConversationContext(m.ctx, from, now)
        \* history.slice(-10)
        last10  == SubSeq(history, Max(1, Len(history) - 9), Len(history))
    IN  [ctx  |-> [ctx EXCEPT ![from].conversationHistory = last10],
         conv |-> [m.conv EXCEPT ![from] = history],
         n    |-> [m.n EXCEPT ![from] = @ + 1]]

\* push, then shift once when the length exceeds the bound; the context keeps
\* the last 10 entries. The content of an entry is represented by the ordinal
\* of the message among those recorded for the user; its timestamp is never
\* read.
addToConversationHistory(m, from, role, now) ==
    LET pushed  == Append(m.conv[from], [role |-> role, content |-> m.n[from] + 1])
        history == IF Len(pushed) > MAX_CONVERSATION_HISTORY
                   THEN Tail(pushed) ELSE pushed
        ctx     == getConversationContext(m.ctx, from, now)
        \* history.slice(-10)
        last10  == SubSeq(history, Max(1, Len(history) - 9), Len(history))
    IN  [ctx  |-> [ctx EXCEPT ![from].conversationHistory = last10],
         conv |-> [m.conv EXCEPT ![from] = history],
         n    |-> [m.n EXCEPT ![from] = @ + 1]]

StoreMemory(m) ==
    /\ conversationContext' = m.ctx
    /\ userConversations' = m.conv
    /\ recorded' = m.n

MemoryFrame == UNCHANGED <<adminNumbers, pendingConfirmations, userWorkflows, tasks,
                           budgetTimer, lastTurn, scenario, resolution, escaped, poll>>

\* the role of the newest entry of a history
lastRole(history) == IF history = <<>> THEN "none" ELSE history[Len(history)].role

\* handleNaturalLanguageChat records the message when it starts ...
MessageRecorded(u) ==
    /\ recorded[u] < MaxRecorded
    /\ lastRole(userConversations[u]) # "user"
    /\ StoreMemory(addToConversationHistory(Memory, u, "user", clock))
    /\ UNCHANGED <<clock, lastRef>>
    /\ MemoryFrame

\* ... and the reply once the answer has been composed
ReplyRecorded(u) ==
    /\ recorded[u] < MaxRecorded
    /\ lastRole(userConversations[u]) = "user"
    /\ StoreMemory(addToConversationHistory(Memory, u, "assistant", clock))
    /\ UNCHANGED <<clock, lastRef>>
    /\ MemoryFrame

\* the window after which updateConversationContext deletes a context, in minutes
IdleWindow == 30

\* products of the store, as normalizeProduct returns them
StoreProducts ==
    <<[id |-> 1, name |-> <<"o","i","l">>],
      [id |-> 2, name |-> <<"m","a","s","k">>],
      [id |-> 3, name |-> <<"t","o","n","e","r">>]>>

\* lastProduct and lastAction are set, the timestamp is refreshed, and then
\* every context whose timestamp is older than the window is deleted
updateConversationContext(ctx, from, product, action, now) ==
    LET c0 == getConversationContext(ctx, from, now)
        c1 == [c0 EXCEPT ![from].lastProduct = IF product # NoProduct THEN product ELSE @,
                         ![from].lastAction = IF action # "none" THEN action ELSE @,
                         ![from].timestamp = now]
    IN  [phone \in Users |->
            IF c1[phone].present /\ now - c1[phone].timestamp > IdleWindow
            THEN NoContext ELSE c1[phone]]

\* The patterns of parseProductEditRequest applied to a text: the fields it
\* updates, the ordinal it holds (0 for none), whether it holds a pronoun,
\* and the product keyword it holds (<<>> for none). Of the patterns that
\* fill updates the price patterns are modelled: the texts explored hold
\* none of the words name, title, description, call and no quotation mark,
\* so updates.title and updates.description stay unset.
scanProductEditRequest(messageText) ==
    LET \* lower is the text in lower case, words its parts between white space
        patterns(lower, words) ==
            LET endsWith(w, p) == Len(w) >= Len(p) /\ SubSeq(w, Len(w) - Len(p) + 1, Len(w)) = p
                isNum(c) == IsDigit(c) \/ c = "."
                \* \s+[$]?([\d.]+) and [$]?([\d.]+)\s+
                amount(w) == \/ w # <<>> /\ isNum(w[1])
                             \/ Len(w) >= 2 /\ w[1] = "$" /\ isNum(w[2])
                amountEnd(w) == w # <<>> /\ isNum(w[Len(w)])
                price == <<"p","r","i","c","e">>
                the == <<"t","h","e">>
                product == <<"p","r","o","d","u","c","t">>
                be == <<"b","e">>
                to == <<"t","o">>
                as == <<"a","s">>
                is == <<"i","s">>
                should == <<"s","h","o","u","l","d">>
                for == <<"f","o","r">>
                verbs1 == {<<"c","h","a","n","g","e">>, <<"u","p","d","a","t","e">>,
                           <<"s","e","t">>, <<"m","a","k","e">>}
                verbs3 == {<<"w","a","n","t">>, <<"n","e","e","d">>, <<"m","a","k","e">>}
                word(i) == IF i \in 1..Len(words) THEN words[i] ELSE <<>>
                \* the optional words "the" and "product" between positions i and j
                fill(i, j, opt) == SubSeq(words, i + 1, j - 1) \in
                                      {<<>>} \cup {<<o>> : o \in opt}
                                      \cup (IF Cardinality(opt) = 2 THEN {<<the, product>>} ELSE {})
                pattern1 == \E i, j \in 1..Len(words) :
                               /\ i < j
                               /\ \E v \in verbs1 : endsWith(words[i], v)
                               /\ fill(i, j, {the, product})
                               /\ words[j] = price
                               /\ word(j + 1) \in {to, as, is, be}
                               /\ amount(word(j + 2))
                pattern2 == \E j \in 1..Len(words) :
                               /\ endsWith(words[j], price)
                               /\ \/ word(j + 1) \in {is, to, as} /\ amount(word(j + 2))
                                  \/ word(j + 1) = should /\ word(j + 2) = be /\ amount(word(j + 3))
                pattern3 == \E i, j \in 1..Len(words) :
                               /\ i < j
                               /\ \E v \in verbs3 : endsWith(words[i], v)
                               /\ fill(i, j, {the})
                               /\ words[j] = price
                               /\ \/ word(j + 1) = to /\ word(j + 2) = be /\ amount(word(j + 3))
                                  \/ word(j + 1) = as /\ amount(word(j + 2))
                pattern4 == \E i, j \in 1..Len(words) :
                               /\ i + 1 < j
                               /\ amountEnd(words[i])
                               /\ words[i + 1] \in {for, as}
                               /\ fill(i + 1, j, {the})
                               /\ startsWith(words[j], price)
                updates == IF pattern1 \/ pattern2 \/ pattern3 \/ pattern4 THEN {"price"} ELSE {}
                \* /(?:product\s+)?(?:number|#|num|no\.?)\s*(\d+)/i
                markers == <<<<"n","u","m","b","e","r">>, <<"#">>, <<"n","u","m">>,
                             <<"n","o",".">>, <<"n","o">>>>
                digitsAt(i, k) == i + Len(markers[k]) + spaceRun(lower, i + Len(markers[k]))
                hits == {h \in (1..Len(lower)) \X (1..Len(markers)) :
                            /\ startsWith(SubSeq(lower, h[1], Len(lower)), markers[h[2]])
                            /\ digitRun(lower, digitsAt(h[1], h[2])) > 0}
                first == CHOOSE h \in hits :
                            \A g \in hits : h[1] < g[1] \/ (h[1] = g[1] /\ h[2] <= g[2])
                start == digitsAt(first[1], first[2])
                number == IF hits = {} THEN 0
                          ELSE parseInt(SubSeq(lower, start, start + digitRun(lower, start) - 1))
                \* /\b(shampoo|hair|treatment|cream|serum|oil|mask|conditioner|toner|cleanser)\b/i
                keywords == {<<"s","h","a","m","p","o","o">>, <<"h","a","i","r">>,
                             <<"t","r","e","a","t","m","e","n","t">>, <<"c","r","e","a","m">>,
                             <<"s","e","r","u","m">>, <<"o","i","l">>, <<"m","a","s","k">>,
                             <<"c","o","n","d","i","t","i","o","n","e","r">>,
                             <<"t","o","n","e","r">>, <<"c","l","e","a","n","s","e","r">>}
                wordChar(i) == /\ i \in 1..Len(lower)
                               /\ \/ IsDigit(lower[i])
                                  \/ lower[i] = "_"
                                  \/ \E k \in 1..26 : LowerChars[k] = lower[i]
                found == {i \in 1..Len(lower) :
                             \E kw \in keywords :
                                 /\ startsWith(SubSeq(lower, i, Len(lower)), kw)
                                 /\ ~wordChar(i - 1)
                                 /\ ~wordChar(i + Len(kw))}
                keyword == LET i  == SetMin(found)
                               kw == CHOOSE k \in keywords :
                                         /\ startsWith(SubSeq(lower, i, Len(lower)), k)
                                         /\ ~wordChar(i + Len(k))
                           IN  SubSeq(messageText, i, i + Len(kw) - 1)
                pronoun == \/ includes(lower, <<"i","t">>)
                           \/ includes(lower, <<"t","h","i","s">>)
                           \/ includes(lower, <<"t","h","a","t">>)
            IN  [updates |-> updates, number |-> number, pronoun |-> pronoun,
                 keyword |-> IF found = {} THEN <<>> ELSE keyword]
        lowered == toLowerCase(messageText)
    IN  patterns(lowered, IF trim(lowered) = <<>> THEN <<>> ELSE splitWs(trim(lowered)))

\* the free texts explored. The content handler (whatsapp.js 142-165,
\* 372-517) returns null for each of them: they hold none of the words its
\* patterns start from.
ContextTexts ==
    LET triggers == {<<"u","s","e">>, <<"e","d","i","t">>, <<"m","a","k","e">>,
                 <<"r","e","g","e","n","e","r","a","t","e">>,
                 <<"i","m","a","g","e",":">>, <<"v","i","d","e","o",":">>,
                 <<"c","r","e","a","t","e">>, <<"g","e","n","e","r","a","t","e">>,
                 <<"s","h","o","w"," ","m","e">>, <<"i"," ","n","e","e","d">>,
                 <<"i"," ","w","a","n","t">>, <<"c","h","a","n","g","e">>,
                 <<"m","o","d","i","f","y">>, <<"u","p","d","a","t","e">>,
                 <<"a","d","j","u","s","t">>, <<"f","i","x">>,
                 <<"i","m","p","r","o","v","e">>}
    IN  {text \in {T.hello, T.d2, T.d9, T.setPrice, T.setShampooPrice,
                   T.setNumber2Price, T.setItsPrice} :
            \A w \in triggers : ~includes(toLowerCase(text), w)}

\* the patterns applied to each of the texts explored
Scanned == [text \in ContextTexts |-> scanProductEditRequest(text)]

\* parseProductEditRequest for the context record ctx of the sender; by
\* tells which step produced productName. Steps 3 and 4 find nothing in the
\* texts explored, and step 5 repeats the look-up of step 0 for a text with
\* one ordinal.
parseProductEditRequest(ctx, messageText) ==
    LET steps(scan) ==
            LET updates == scan.updates
                list == ctx.lastProductList
                \* 0. an ordinal in the range of lastProductList
                byNumber == list # <<>> /\ scan.number >= 1 /\ scan.number <= Len(list)
                \* 1. lastProduct, for a pronoun or for any update
                byContext == ctx.lastProduct # NoProduct /\ (scan.pronoun \/ updates # {})
            IN  IF byNumber
                THEN [productName |-> list[scan.number].name, updates |-> updates,
                      by |-> "number"]
                ELSE IF byContext
                THEN [productName |-> ctx.lastProduct.name, updates |-> updates,
                      by |-> "lastProduct"]
                ELSE IF scan.keyword # <<>>
                THEN [productName |-> scan.keyword, updates |-> updates, by |-> "keyword"]
                ELSE [productName |-> <<>>, updates |-> updates, by |-> "none"]
    IN  steps(Scanned[messageText])

\* what findProductByName and findProductCandidates(name, 3) answer for a
\* name depends on the store: a product, or no product and 0 to 3 candidates
Resolutions ==
    {[found |-> StoreProducts[1], candidates |-> <<>>]}
    \cup {[found |-> NoProduct, candidates |-> c] :
             c \in {<<>>, <<StoreProducts[2]>>,
                    <<StoreProducts[3], StoreProducts[1], StoreProducts[2]>>}}

\* time passes
Tick(d) ==
    /\ clock + d <= MaxClock
    /\ clock' = clock + d
    /\ UNCHANGED <<conversationContext, userConversations, recorded, lastRef>>
    /\ MemoryFrame

\* /products: handleProducts with the products getProductsCache returns
HandleProductsOp(from, products) ==
    LET ctx == getConversationContext(conversationContext, from, clock)
    IN  /\ conversationContext' =
              IF products = <<>> THEN conversationContext
              ELSE [ctx EXCEPT ![from].lastProductList = products]
        /\ lastRef' = [lastRef EXCEPT ![from] =
                          [NoRef EXCEPT !.op = "products", !.shown = products, !.at = clock]]
        /\ UNCHANGED <<userConversations, recorded, clock>>
        /\ MemoryFrame

\* /product <name>: handleProduct showing a product, the resolver answering res
HandleProductOp(from, res) ==
    /\ conversationContext' =
          IF res.found = NoProduct THEN conversationContext
          ELSE updateConversationContext(conversationContext, from, res.found, "view", clock)
    /\ lastRef' = [lastRef EXCEPT ![from] =
                      [NoRef EXCEPT !.op = "product", !.product = res.found,
                                    !.shown = res.candidates, !.at = clock]]
    /\ UNCHANGED <<userConversations, recorded, clock>>
    /\ MemoryFrame

\* a text that does not start with "/" and that the content handler passes
\* on. When the text is a product edit the resolver answers res and the PUT
\* succeeds or fails.
FreeformOp(from, messageText) ==
    LET now == clock
        m0 == [Memory EXCEPT !.ctx = getConversationContext(@, from, now)]
        own == m0.ctx[from]
        req == parseProductEditRequest(own, messageText)
        isEdit == req.productName # <<>> /\ req.updates # {}
        ref == [NoRef EXCEPT !.text = messageText, !.at = now]
        \* the edit: findProductByName, then findProductCandidates
        heard == addToConversationHistory(m0, from, "user", now)
        product(res) == IF res.found # NoProduct THEN res.found
                        ELSE IF Len(res.candidates) = 1 THEN res.candidates[1]
                        ELSE NoProduct
        asked(res) == [heard EXCEPT !.ctx[from].candidates = res.candidates]
        updated(res) == [heard EXCEPT !.ctx = updateConversationContext(
                                                  @, from, product(res), "edit", now)]
        failed(res) == addToConversationHistory(updated(res), from, "assistant", now)
        edit(res, put) == IF product(res) = NoProduct
                          THEN IF Len(res.candidates) > 1 THEN asked(res) ELSE heard
                          ELSE IF ~isAdmin(from) THEN heard
                          ELSE IF put = "ok" THEN updated(res) ELSE failed(res)
        editRef(res) ==
            [ref EXCEPT !.op = "edit", !.name = req.productName, !.by = req.by,
                        !.product = IF isAdmin(from) THEN product(res) ELSE NoProduct,
                        !.shown = IF product(res) = NoProduct THEN res.candidates
                                  ELSE <<>>]
        \* the follow-up to a candidate list: /^\d+$/ and an index in range
        digits == messageText # <<>> /\ \A i \in 1..Len(messageText) : IsDigit(messageText[i])
        index == parseInt(messageText)
        selecting == /\ own.candidates # <<>>
                     /\ digits
                     /\ index >= 1
                     /\ index <= Len(own.candidates)
        cleared == [m0.ctx EXCEPT ![from].candidates = <<>>]
        selected == addToConversationHistory(
                        [m0 EXCEPT !.ctx = updateConversationContext(
                                               cleared, from, own.candidates[index],
                                               "selected", now)],
                        from, "assistant", now)
        \* handleNaturalLanguageChat
        chat == addToConversationHistory(addToConversationHistory(m0, from, "user", now),
                                         from, "assistant", now)
    IN  /\ recorded[from] < MaxHeard
        /\ IF isEdit
           THEN \E res \in Resolutions, put \in {"ok", "fail"} :
                   /\ StoreMemory(edit(res, put))
                   /\ lastRef' = [lastRef EXCEPT ![from] = editRef(res)]
           ELSE IF selecting
           THEN /\ StoreMemory(selected)
                /\ lastRef' = [lastRef EXCEPT ![from] =
                                  [ref EXCEPT !.op = "selected", !.by = "candidates",
                                              !.product = own.candidates[index]]]
           ELSE /\ StoreMemory(chat)
                /\ lastRef' = [lastRef EXCEPT ![from] = [ref EXCEPT !.op = "chat"]]
        /\ UNCHANGED clock
        /\ MemoryFrame

----------------------------------------------------------------------------
(* Video generation (src/media.js): pollVideoJob *)

\* maxAttempts = 60, the default the only caller leaves in place
maxAttempts == 60

\* What an awaited call of pollVideoJob can come back with: the poll request
\* (HTTP status, or 0 when the request failed without a response; the job
\* state and whether response.videoUri is present when the status is 200),
\* the download of the video, the setTimeout of intervalMs.
Answers ==
    [request  |-> [status : {200}, state : {"JOB_STATE_SUCCEEDED"}, videoUri : BOOLEAN]
                  \cup [status : {200},
                        state : {"JOB_STATE_FAILED", "JOB_STATE_CANCELLED",
                                 "JOB_STATE_RUNNING", "undefined"},
                        videoUri : {FALSE}]
                  \cup [status : {404, 500, 0}, state : {"undefined"}, videoUri : {FALSE}],
     download |-> [status : {200, 404, 500, 0}, state : {"undefined"}, videoUri : {FALSE}],
     sleep    |-> [status : {200}, state : {"undefined"}, videoUri : {FALSE}],
     done     |-> {}]

pollVideoJobEagerTimeoutMutant(p, r) ==
    LET throw(q, outcome) == [q EXCEPT !.pc = "done", !.outcome = outcome]
        catch(q, status) ==
            IF status = 404 /\ q.attempt < 2 THEN [q EXCEPT !.pc = "sleep"]
            ELSE throw(q, "requestError")
    IN  IF p.pc = "request"
        THEN LET q == [p EXCEPT !.polls = @ + 1, !.seen = r]
             IN  IF r.status # 200 THEN catch(q, r.status)
                 ELSE IF r.state = "JOB_STATE_SUCCEEDED"
                 THEN IF r.videoUri THEN [q EXCEPT !.pc = "download"]
                      ELSE throw(q, "uriMissing")
                 ELSE IF r.state = "JOB_STATE_FAILED" THEN throw(q, "failed")
                 ELSE IF r.state = "JOB_STATE_CANCELLED" THEN throw(q, "cancelled")
                 ELSE [q EXCEPT !.pc = "sleep"]
        ELSE IF p.pc = "download"
        THEN LET q == [p EXCEPT !.download = r.status]
             IN  IF r.status = 200 THEN [q EXCEPT !.pc = "done", !.outcome = "video"]
                 ELSE catch(q, r.status)
        ELSE IF p.pc = "sleep"
        THEN IF p.attempt + 1 < maxAttempts - 1
             THEN [p EXCEPT !.pc = "request", !.attempt = @ + 1, !.download = -1]
             ELSE throw([p EXCEPT !.attempt = @ + 1], "timeout")
        ELSE p

\* pollVideoJob from one await to the next.  p.pc names the call awaited:
\* the poll request, the download of the video, or the setTimeout before the
\* next iteration; r is what that call came back with.  A throw inside the
\* try block lands in the catch block, which retries a 404 of the first two
\* attempts and rethrows anything else.
pollVideoJob(p, r) ==
    LET throw(q, outcome) == [q EXCEPT !.pc = "done", !.outcome = outcome]
        catch(q, status) ==
            IF status = 404 /\ q.attempt < 2 THEN [q EXCEPT !.pc = "sleep"]
            ELSE throw(q, "requestError")
    IN  IF p.pc = "request"
        THEN LET q == [p EXCEPT !.polls = @ + 1, !.seen = r]
             IN  IF r.status # 200 THEN catch(q, r.status)
                 ELSE IF r.state = "JOB_STATE_SUCCEEDED"
                 THEN IF r.videoUri THEN [q EXCEPT !.pc = "download"]
                      ELSE throw(q, "uriMissing")
                 ELSE IF r.state = "JOB_STATE_FAILED" THEN throw(q, "failed")
                 ELSE IF r.state = "JOB_STATE_CANCELLED" THEN throw(q, "cancelled")
                 ELSE [q EXCEPT !.pc = "sleep"]
        ELSE IF p.pc = "download"
        THEN LET q == [p EXCEPT !.download = r.status]
             IN  IF r.status = 200 THEN [q EXCEPT !.pc = "done", !.outcome = "video"]
                 ELSE catch(q, r.status)
        ELSE IF p.pc = "sleep"
        THEN IF p.attempt + 1 < maxAttempts
             THEN [p EXCEPT !.pc = "request", !.attempt = @ + 1, !.download = -1]
             ELSE throw([p EXCEPT !.attempt = @ + 1], "timeout")
        ELSE p

----------------------------------------------------------------------------
(* Specifications *)

GateTexts == {T.YES, T.yes, T.yesSp, T.no, T.pauseA, T.resumeA, T.budgetA5, T.createad}

\* Sessions are addressed by user key only, so one sender is followed through
\* every text; the other users send a risky command now and then.  The admin
\* list decides who is privileged.
GateUsers == {"u1"}

DispatchTexts == {T.YES, T.pauseA, T.hello, T.back, T.BackSp, T.cancel, T.menu,
                  T.slashBack, T.d4}

\* texts the step handlers receive, navigation keywords, shortcut phrases
StepTexts     == {T.shampoo, T.list, T.d1, T.d2, T.d3, T.d4, T.b40ongoing}
NavTexts      == {T.BackSp, T.cancel, T.menu}
FaultTexts    == {T.shampoo, T.d1, T.d2, T.d3, T.b40ongoing}
ShortcutTexts == {T.shortcut}

WorkflowUsers == {"u1"}

Resume ==
    \E t \in BagToSet(tasks) :
        \/ SendCompletes(t)
        \/ FindEntityReturns(t)
        \/ AdsetsReturn(t)
        \/ FbPostReturns(t)
        \/ CreateAdRuns(t)
        \/ OtherHandlerRuns(t)
        \/ FreeformRuns(t)

NextGate ==
    \/ \E u \in GateUsers, text \in GateTexts : Deliver(u, "text", text)
    \/ \E u \in GateUsers : Deliver(u, "image", <<>>)
    \/ \E u \in Users \ GateUsers : Deliver(u, "text", T.pauseA)
    \/ Resume

NextDispatch ==
    \/ \E u \in WorkflowUsers, text \in DispatchTexts : Deliver(u, "text", text)
    \/ Resume
    \/ \E u \in WorkflowUsers : ShowMainMenuOp(u)
    \/ \E u \in WorkflowUsers : HandleWorkflowNavigationOp(u, T.cancel, NominalEnv)

\* the engine's entry points, every collaborator answering
NextWorkflow ==
    \E u \in WorkflowUsers :
        \/ \E text \in StepTexts, env \in AnsweringEnvs : HandleWorkflowStepOp(u, text, env)
        \/ \E text \in NavTexts : HandleWorkflowNavigationOp(u, text, NominalEnv)
        \/ ShowMainMenuOp(u)
        \/ \E text \in ShortcutTexts : HandleShortcutOp(u, text)
        \/ TimerFires(u)

\* the engine's entry points, collaborators failing
NextFaults ==
    \E u \in WorkflowUsers :
        \/ \E text \in FaultTexts, env \in Envs(userWorkflows[u]) :
              HandleWorkflowStepOp(u, text, env)
        \/ \E env \in Envs(userWorkflows[u]) : HandleWorkflowNavigationOp(u, T.back, env)
        \/ \E text \in ShortcutTexts : HandleShortcutOp(u, text)
        \/ TimerFires(u)

\* calls of the entity resolver on small catalogs
NextResolver ==
    \/ \E products \in Catalogs : CacheRefreshed(products)
    \/ \E name \in Queries, fetched \in BOOLEAN : FindProductByNameOp(name, fetched)

\* messages and replies recorded in the conversation histories
NextHistory ==
    \E u \in Users :
        \/ MessageRecorded(u)
        \/ ReplyRecorded(u)

\* one user's commands and free texts; another user looks a product up
NextContext ==
    \/ \E text \in ContextTexts : FreeformOp("u1", text)
    \/ \E products \in {<<>>, StoreProducts} : HandleProductsOp("u1", products)
    \/ \E res \in Resolutions : HandleProductOp("u1", res)
    \/ \E res \in {r \in Resolutions : r.found # NoProduct} : HandleProductOp("u2", res)
    \/ \E d \in {IdleWindow, IdleWindow + 1} : Tick(d)

\* one call of pollVideoJob, from await to await
NextPoll ==
    /\ \E r \in Answers[poll.pc] : poll' = pollVideoJob(poll, r)
    /\ UNCHANGED <<adminNumbers, pendingConfirmations, userWorkflows, tasks, budgetTimer,
                   lastTurn, scenario, resolution, contextVars, escaped>>

Next == NextGate \/ NextDispatch \/ NextWorkflow \/ NextFaults \/ NextResolver
        \/ NextHistory \/ NextContext \/ NextPoll

SpecGate     == Init /\ [][NextGate]_vars
SpecDispatch == Init /\ [][NextDispatch]_vars
SpecWorkflow == InitWorkflow /\ [][NextWorkflow]_vars
SpecFaults   == InitWorkflow /\ [][NextFaults]_vars
SpecResolver == InitWorkflow /\ [][NextResolver]_vars

\* every awaited call of pollVideoJob comes back: the timer fires, the HTTP
\* client answers or gives up
SpecPoll     == InitWorkflow /\ [][NextPoll]_vars /\ WF_vars(NextPoll)
SpecHistory  == InitWorkflow /\ [][NextHistory]_vars
SpecContext  == InitWorkflow /\ [][NextContext]_vars
Spec         == Init /\ [][Next]_vars

----------------------------------------------------------------------------
(* Properties of the confirmation gate and the command router (SpecGate) *)

\* the invocations that started in the step from the current state to the next
Delivered ==
    IF BagCardinality(tasks') = BagCardinality(tasks) + 1
    THEN {t \in BagToSet(tasks') : CopiesIn(t, tasks') > CopiesIn(t, tasks)}
    ELSE {}

mutatingHandlers == {"handlePause", "handleResume", "handleBudget"}

\* C1: an invocation is inside handlePause, handleResume or handleBudget (and
\* so can reach the ad platform's POST) only if its message is the accept
\* token, the sender had a confirmation pending when it arrived, and the
\* command and args it runs are those of that confirmation.
C1_MutationOnlyOnAccept ==
    \A t \in BagToSet(tasks) :
        (t.handler \in mutatingHandlers \/ t.pc \in {"awaitFind", "awaitAdsets", "awaitFbPost"})
        => /\ toUpperCase(t.text) = T.YES
           /\ t.pending # NoPending
           /\ t.command = t.pending.command
           /\ t.params = t.pending.params
           /\ t.command \in riskyCommands
           /\ t.handler = handlerOf(t.command)

\* a confirmed /budget is about to POST the new budget
C1_Witness ==
    \E t \in BagToSet(tasks) :
        /\ t.pc = "awaitFbPost"
        /\ t.handler = "handleBudget"
        /\ t.text = T.YES
        /\ t.pending = [command |-> CmdBudget, params |-> <<<<"a">>, <<"5">>>>]

\* C2: when a text equal to "yes" in any letter case arrives from a user
\* with a pending confirmation, that one invocation removes the confirmation
\* and enters, once, the handler of the stored command with the stored args.
C2_YesExecutesStored ==
    [][\A t \in Delivered :
          (t.route # "NonText" /\ t.pending # NoPending /\ toUpperCase(t.text) = T.YES)
          => /\ pendingConfirmations'[t.from] = NoPending
             /\ pendingConfirmations[t.from] = t.pending
             /\ t.route = "Confirmed"
             /\ t.command = t.pending.command
             /\ t.params = t.pending.params
             /\ t.handler = handlerOf(t.pending.command)
             /\ Cardinality(Delivered) = 1
             /\ CopiesIn(t, tasks') = CopiesIn(t, tasks) + 1]_vars

\* a lower-case "yes" released a pending /pause and the store is empty again
C2_Witness ==
    \E t \in BagToSet(tasks) :
        /\ t.text = T.yes
        /\ t.route = "Confirmed"
        /\ t.pending = [command |-> CmdPause, params |-> <<<<"a">>>>]
        /\ t.handler = "handlePause"
        /\ pendingConfirmations[t.from] = NoPending

\* C3: when any other text arrives from a user with a pending confirmation,
\* the confirmation is removed, no command handler is entered, and the text
\* is only answered with the cancellation: it is not routed as a command or
\* as free-form text, even if it starts with "/".
C3_OtherTextCancels ==
    [][\A t \in Delivered :
          (t.route # "NonText" /\ t.pending # NoPending /\ toUpperCase(t.text) # T.YES)
          => /\ pendingConfirmations'[t.from] = NoPending
             /\ t.route = "Cancelled"
             /\ t.handler = "none"
             /\ t.command = <<>>
             /\ t.reply = "cancelled"
             /\ t.pc = "awaitSend"]_vars

\* a "/pause a" that arrived while a confirmation was pending was cancelled
C3_Witness ==
    \E t \in BagToSet(tasks) :
        /\ t.text = T.pauseA
        /\ t.pending # NoPending
        /\ t.route = "Cancelled"
        /\ pendingConfirmations[t.from] = NoPending

\* C4: no step, whatever the interleaving of invocations, creates or replaces
\* the pending confirmation of a user who has one: it stays or is removed.
C4_NoPendingOverPending ==
    [][\A u \in Users :
          pendingConfirmations[u] # NoPending
          => pendingConfirmations'[u] \in {NoPending, pendingConfirmations[u]}]_vars

\* a confirmation is pending for a user while an earlier invocation of the
\* same user, which resolved the previous confirmation, is still suspended
C4_Witness ==
    \E t \in BagToSet(tasks) :
        /\ t.pending # NoPending
        /\ t.route \in {"Cancelled", "Confirmed"}
        /\ pendingConfirmations[t.from] # NoPending
        /\ pendingConfirmations[t.from] # t.pending

\* C5: with a non-empty admin list, a control command of a sender outside it
\* enters no handler, is answered with the denial (or, if sending that
\* fails, with the failure report), never reaches the ad platform and leaves
\* the sender without a pending confirmation and with the same session;
\* executeCommand called with confirmed = true denies in the same way.
C5_NonAdminDenied ==
    \A u \in Users :
        (adminNumbers # {} /\ u \notin adminNumbers)
        => /\ pendingConfirmations[u] = NoPending
           /\ userWorkflows[u] = NoWorkflow
           /\ \A t \in BagToSet(tasks) :
                 (t.from = u /\ t.command \in controlCommands)
                 => /\ t.handler = "none"
                    /\ t.pc = "awaitSend"
                    /\ t.reply \in {"denied", "couldntComplete"}
                    /\ (t.reply = "couldntComplete" => ~t.inTry)
           /\ \A command \in controlCommands, confirmed \in BOOLEAN :
                 executeCommand(u, command, <<<<"a">>, <<"5">>>>, confirmed)
                     = Outcome("awaitSend", "none", "denied", FALSE)

\* a sender outside the admin list is being sent the denial for /createad
C5_Witness ==
    \E t \in BagToSet(tasks) :
        /\ adminNumbers # {}
        /\ t.from \notin adminNumbers
        /\ t.command = CmdCreateAd
        /\ t.reply = "denied"

----------------------------------------------------------------------------
(* Properties of message dispatch (SpecDispatch) *)

navigationKeywords == {T.back, T.cancel, T.menu}

\* C6: a text that arrives from a user with an active workflow and no pending
\* confirmation, and that is neither a structured command nor a navigation
\* keyword, is dispatched to the workflow's step handler (ResumeWorkflow),
\* not to the free-form branch.
C6_WorkflowInputResumesWorkflow ==
    \A t \in BagToSet(tasks) :
        (/\ t.route # "NonText"
         /\ t.hadWorkflow
         /\ t.pending = NoPending
         /\ ~startsWith(t.text, <<"/">>)
         /\ trim(toLowerCase(t.text)) \notin navigationKeywords)
        => t.route = "ResumeWorkflow"

\* C7: a text that is "back", "cancel" or "menu" in any letter case and with
\* surrounding white space ignored, arriving with no pending confirmation, is
\* handled by the navigation handler, with or without an active workflow.
C7_NavigationKeywordNavigates ==
    \A t \in BagToSet(tasks) :
        (/\ t.route # "NonText"
         /\ t.pending = NoPending
         /\ trim(toLowerCase(t.text)) \in navigationKeywords)
        => t.route = "Navigation"

----------------------------------------------------------------------------
(* Properties of the CreateCampaign workflow (SpecWorkflow) *)

promptOfStep == <<"prompt1", "prompt2", "prompt3", "prompt4">>

\* C8: in a run product by name, "4", objective choice o, budget b, the
\* review summary shows the objective of choice o and the amount b, and the
\* create choice "1" that follows creates the campaign with them.
C8_ReviewAndCreateUseChoices ==
    \A u \in Users :
        LET sc == scenario[u]
        IN  /\ sc.stage >= 5
               => /\ sc.shownObjective = objectiveOf(sc.o).objectiveName
                  /\ sc.shownBudget = sc.b
            /\ sc.stage = 6
               => /\ sc.createdObjective = objectiveOf(sc.o).objective
                  /\ sc.createdBudget = sc.b

\* C9: one call of the step handler or of the navigation handler moves the
\* CreateCampaign step by at most one, or ends the workflow.
C9_SingleStepTransitions ==
    [][\A u \in Users :
          (/\ lastTurn'[u] # lastTurn[u]
           /\ lastTurn'[u].op \in {"step", "nav"}
           /\ userWorkflows[u].workflow = "create_campaign"
           /\ userWorkflows'[u].workflow = "create_campaign")
          => /\ userWorkflows'[u].step - userWorkflows[u].step <= 1
             /\ userWorkflows[u].step - userWorkflows'[u].step <= 1]_vars

\* C10: when the message before took CreateCampaign from step N to N+1
\* (N in 1..4) and this message is `back`, the stored step is N again, the
\* prompt of step N has been sent and every value collected is kept.
C10_BackAfterAdvanceRestores ==
    [][\A u \in Users :
          (/\ lastTurn[u].adv \in 1..4
           /\ userWorkflows[u].step = lastTurn[u].adv + 1
           /\ lastTurn'[u].op = "nav"
           /\ isBack(lastTurn'[u].text))
          => /\ userWorkflows'[u].workflow = "create_campaign"
             /\ userWorkflows'[u].step = lastTurn[u].adv
             /\ hasMsg(lastTurn'[u].sent, promptOfStep[lastTurn[u].adv])
             /\ \A k \in DOMAIN EmptyData :
                   userWorkflows[u].data[k] # EmptyData[k]
                   => userWorkflows'[u].data[k] = userWorkflows[u].data[k]]_vars

----------------------------------------------------------------------------
(* Properties of navigation (SpecWorkflow) *)

\* the step from the current state to the next is a call of an entry point
\* of the workflow engine for user u
Turn(u) == lastTurn'[u] # lastTurn[u]

\* the call is handleWorkflowNavigation with a `back` text
BackTurn(u) == Turn(u) /\ lastTurn'[u].op = "nav" /\ isBack(lastTurn'[u].text)

\* C11: `back` at a step greater than 1 only decrements the step and sends
\* messages: it calls no external collaborator and leaves workflowData as it was.
C11_BackHasNoSideEffects ==
    [][\A u \in Users :
          (BackTurn(u) /\ userWorkflows[u].step > 1)
          => /\ lastTurn'[u].calls = <<>>
             /\ userWorkflows'[u].step = userWorkflows[u].step - 1
             /\ userWorkflows'[u].data = userWorkflows[u].data]_vars

\* C12: `back` at a step of at most 1 (or with no session) sends the "can't
\* go back further" notice, calls nothing and leaves the stored workflow
\* kind, step and workflowData as they were.
C12_BackAtFirstStepIsNoOp ==
    [][\A u \in Users :
          (BackTurn(u) /\ userWorkflows[u].step <= 1)
          => /\ lastTurn'[u].sent = <<Msg("cantGoBack")>>
             /\ lastTurn'[u].calls = <<>>
             /\ userWorkflows'[u] = userWorkflows[u]]_vars

\* `back` was just answered with the notice at step 1 of CreateCampaign,
\* with a product name already collected
C12_Witness ==
    \E u \in Users :
        /\ lastTurn[u].op = "nav"
        /\ isBack(lastTurn[u].text)
        /\ lastTurn[u].pre = [workflow |-> "create_campaign", step |-> 1]
        /\ lastTurn[u].sent = <<Msg("cantGoBack")>>
        /\ userWorkflows[u].workflow = "create_campaign"
        /\ userWorkflows[u].step = 1
        /\ userWorkflows[u].data.productName # <<>>

\* the call is handleWorkflowNavigation with the text "cancel" / "menu"
CancelTurn(u) ==
    Turn(u) /\ lastTurn'[u].op = "nav" /\ trim(toLowerCase(lastTurn'[u].text)) = T.cancel

MenuTurn(u) ==
    Turn(u) /\ lastTurn'[u].op = "nav" /\ trim(toLowerCase(lastTurn'[u].text)) = T.menu

\* the session showMainMenu stores
MainMenuSession == [workflow |-> "main_menu", step |-> 0, data |-> EmptyData]

\* C13 as stated: after `cancel` or `menu` no workflow and no workflowData
\* remain stored for the user.
C13_CancelAndMenuClear ==
    [][\A u \in Users :
          (CancelTurn(u) \/ MenuTurn(u)) => userWorkflows'[u] = NoWorkflow]_vars

\* C13 amended: after `cancel` nothing remains stored for the user; after
\* `menu` the workflow that was active and its workflowData are gone and the
\* stored session is the main menu at step 0 with empty workflowData.
C13_CancelClearsMenuResets ==
    [][\A u \in Users :
          /\ CancelTurn(u) => userWorkflows'[u] = NoWorkflow
          /\ MenuTurn(u) => userWorkflows'[u] = MainMenuSession]_vars

\* `cancel` was just handled at step 2 or later of CreateCampaign, where a
\* product had been collected, and nothing is stored any more
C13_Witness ==
    \E u \in Users :
        /\ lastTurn[u].op = "nav"
        /\ lastTurn[u].text = T.cancel
        /\ lastTurn[u].pre.workflow = "create_campaign"
        /\ lastTurn[u].pre.step >= 2
        /\ userWorkflows[u] = NoWorkflow

\* C14: a `cancel` that follows a `cancel` completes normally (it sends the
\* cancellation message and calls nothing) and leaves the session absent,
\* as the first one did.
C14_CancelTwice ==
    [][\A u \in Users :
          (/\ CancelTurn(u)
           /\ lastTurn'[u].afterCancel)
          => /\ userWorkflows[u] = NoWorkflow
             /\ userWorkflows'[u] = NoWorkflow
             /\ lastTurn'[u].sent = <<Msg("cancelled")>>
             /\ lastTurn'[u].calls = <<>>]_vars

\* the second of two `cancel` in a row has just been handled
C14_Witness ==
    \E u \in Users :
        /\ lastTurn[u].op = "nav"
        /\ lastTurn[u].text = T.cancel
        /\ lastTurn[u].afterCancel
        /\ lastTurn[u].sent = <<Msg("cancelled")>>
        /\ userWorkflows[u] = NoWorkflow

----------------------------------------------------------------------------
(* Properties of the CreateCampaign steps under failing collaborators      *)
(* (SpecFaults)                                                            *)

\* the call is handleWorkflowStep on a CreateCampaign session stored at step n
StepTurn(u, n) ==
    /\ Turn(u)
    /\ lastTurn'[u].op = "step"
    /\ userWorkflows[u].workflow = "create_campaign"
    /\ userWorkflows[u].step = n

\* how many of the calls went to the collaborator `name`
callCount(calls, name) == Cardinality({i \in 1..Len(calls) : calls[i].name = name})

mediaFailure(sent) ==
    LET I == {i \in 1..Len(sent) : sent[i].kind = "mediaFailed"}
    IN  IF I = {} THEN Msg("none") ELSE sent[SetMax(I)]

\* C16: when media generation or the upload of its preview fails at step 2,
\* the user is sent a message that quotes the error of the call that failed,
\* the stored step is 2 and a "skip" sent next takes the workflow to a later
\* step; no call in which the failure is reported leaves a step other than 2.
C16_MediaFailureKeepsStep ==
    [][\A u \in Users :
          (Turn(u) /\ hasMsg(lastTurn'[u].sent, "mediaFailed"))
          => LET calls == lastTurn'[u].calls
                 last  == calls[Len(calls)].name
                 after == userWorkflows'[u]
             IN  /\ calls # <<>>
                 /\ mediaFailure(lastTurn'[u].sent).error =
                       (IF last \in {"generateImage", "generateVideo"}
                        THEN "generation failed"
                        ELSE IF last = "uploadWhatsAppMedia" THEN "upload failed"
                        ELSE "none")
                 /\ mediaFailure(lastTurn'[u].sent).error # "none"
                 /\ after.workflow = "create_campaign"
                 /\ after.step = 2
                 /\ \A env \in AllEnvs :
                       LET r == handleWorkflowStep(Ctx(after, env), T.skip).stored
                       IN  r.workflow = "create_campaign" /\ r.step > 2]_vars

\* the preview upload has just failed on an answer given at step 2: the
\* failure was reported, the generated media is in workflowData and the
\* stored step is still 2
C16_Witness ==
    \E u \in Users :
        /\ lastTurn[u].op = "step"
        /\ lastTurn[u].pre = [workflow |-> "create_campaign", step |-> 2]
        /\ mediaFailure(lastTurn[u].sent).error = "upload failed"
        /\ hasCall(lastTurn[u].calls, "uploadWhatsAppMedia")
        /\ userWorkflows[u].workflow = "create_campaign"
        /\ userWorkflows[u].step = 2
        /\ userWorkflows[u].data.media # "none"

\* answers given at step 4: nothing, an amount with "ongoing", an amount with
\* two dates, the word "default", a word, a digit
Step4Texts == {T.empty, T.b40ongoing, T.dates, T.defaults, T.shampoo, T.d1}

\* budget, duration, audience and copy are all present in workflowData
planDefined(data) ==
    /\ data.budget # NoBudget
    /\ data.duration # "none"
    /\ data.audience # "none"
    /\ data.copy # "none"

\* C17: whatever is answered at step 4 and however the audience and copy
\* generation ends (success, a reply that cannot be parsed, an exception),
\* the call ends with step 5 stored and with budget, duration, audience and
\* copy defined in the stored workflowData; after an exception audience and
\* copy are the defaults.
C17_BudgetStepAlwaysReachesReview ==
    [][\A u \in Users :
          /\ StepTurn(u, 4)
                => /\ userWorkflows'[u].workflow = "create_campaign"
                   /\ userWorkflows'[u].step = 5
                   /\ planDefined(userWorkflows'[u].data)
          /\ (userWorkflows[u].workflow = "create_campaign" /\ userWorkflows[u].step = 4)
                => \A env \in AllEnvs, text \in Step4Texts :
                      LET r == handleWorkflowStep(Ctx(userWorkflows[u], env), text).stored
                      IN  /\ r.workflow = "create_campaign"
                          /\ r.step = 5
                          /\ planDefined(r.data)
                          /\ (env.ai = "fail" \/ env.aiCopy = "fail")
                                => r.data.audience = "default" /\ r.data.copy = "default"]_vars

\* an answer at step 4 has just been handled while the audience generation
\* threw: step 5 is stored with the default audience and copy
C17_Witness ==
    \E u \in Users :
        /\ lastTurn[u].op = "step"
        /\ lastTurn[u].pre = [workflow |-> "create_campaign", step |-> 4]
        /\ hasCall(lastTurn[u].calls, "openai:audience")
        /\ ~hasCall(lastTurn[u].calls, "openai:copy")
        /\ userWorkflows[u].step = 5
        /\ userWorkflows[u].data.product # 0
        /\ userWorkflows[u].data.audience = "default"
        /\ userWorkflows[u].data.copy = "default"
        /\ userWorkflows[u].data.budget # NoBudget

\* answers without a currency amount: nothing, words, only a date range
NoAmountTexts == {T.empty, T.shampoo, T.defaults, T.datesOnly}

\* answers without two well-formed dates
NoDateRangeTexts == {T.empty, T.shampoo, T.defaults, T.b40ongoing, T.d1}

\* C18: at step 4 an answer without a currency amount (empty, words only, or
\* only a date range) stores the default budget 50, an answer without two
\* well-formed dates stores the duration "ongoing", and the call completes
\* with step 5 stored whatever the answer.
C18_MissingFieldsDefault ==
    \A u \in Users :
        (userWorkflows[u].workflow = "create_campaign" /\ userWorkflows[u].step = 4)
        => \A env \in AllEnvs, text \in NoAmountTexts \cup NoDateRangeTexts :
              LET r == handleWorkflowStep(Ctx(userWorkflows[u], env), text).stored
              IN  /\ r.workflow = "create_campaign" /\ r.step = 5
                  /\ text \in NoAmountTexts => r.data.budget = DefaultBudget
                  /\ text \in NoDateRangeTexts => r.data.duration = "ongoing"

----------------------------------------------------------------------------
(* Properties of starting a workflow (SpecWorkflow) *)

\* the call starts CreateCampaign from the shortcut phrase
ShortcutStart(u) ==
    /\ Turn(u)
    /\ lastTurn'[u].op = "shortcut"
    /\ includes(toLowerCase(lastTurn'[u].text), K.createCampaign)

\* the call starts CreateCampaign from the main menu
MenuStart(u) ==
    /\ Turn(u)
    /\ lastTurn'[u].op = "step"
    /\ userWorkflows[u].workflow = "main_menu"
    /\ \/ leadingDigit(lastTurn'[u].text) = 1
       \/ includes(trim(toLowerCase(lastTurn'[u].text)), K.createCampaign)
       \/ includes(trim(toLowerCase(lastTurn'[u].text)), K.newCampaign)

\* the session of a CreateCampaign just started with the product name detected
FreshCampaign(productName) ==
    [workflow |-> "create_campaign", step |-> 1,
     data |-> [EmptyData EXCEPT !.productName = productName]]

----------------------------------------------------------------------------
(* Properties of the entity resolver (SpecResolver) *)

\* the catalog positions whose name is the name asked for, case and
\* surrounding white space apart
exactNameMatches(products, name) ==
    {i \in 1..Len(products) :
        trim(toLowerCase(products[i].name)) = trim(toLowerCase(name))}

\* C20: when the name asked for equals the name of a catalog entity (case
\* and surrounding white space apart) and the catalog was fetched, the
\* resolver returns an entity of that name and the score computed for it is
\* exactly 1.
C20_ExactNameScoresOne ==
    (/\ resolution.called
     /\ resolution.fetched
     /\ exactNameMatches(resolution.products, resolution.name) # {})
    => /\ resolution.result.found \in
             exactNameMatches(resolution.products, resolution.name)
       /\ resolution.result.score[1] = resolution.result.score[2]

\* the combined scores of the products of the catalog last searched
combinedScores ==
    [i \in 1..Len(resolution.products) |->
        totalScore(trim(toLowerCase(resolution.name)), resolution.products[i])]

\* the name similarity by which findProductCandidates ranks a product
candidateScore(i) ==
    calculateSimilarity(trim(toLowerCase(resolution.name)),
                        toLowerCase(resolution.products[i].name))

\* the search went through: the catalog was fetched and the name is not blank
Searched ==
    resolution.called /\ resolution.fetched /\ trim(resolution.name) # <<>>

\* C21: when the best combined score lies in [0.3, 0.5) there is no
\* confident match and the candidate list is non-empty, holds at most 5
\* entities and is ordered by descending score.
C21_MidScoreGivesCandidates ==
    (/\ Searched
     /\ \E i \in DOMAIN combinedScores : ratLeq(<<3, 10>>, combinedScores[i])
     /\ \A i \in DOMAIN combinedScores :
           ~ratLeq(<<5, 10>>, combinedScores[i]))
    => /\ resolution.result.found = 0
       /\ resolution.candidates # <<>>
       /\ Len(resolution.candidates) <= 5
       /\ \A k \in 1..(Len(resolution.candidates) - 1) :
             ratLeq(candidateScore(resolution.candidates[k + 1]),
                    candidateScore(resolution.candidates[k]))

\* neither a confident match nor a candidate
ResolvedNone == resolution.result.found = 0 /\ resolution.candidates = <<>>

\* C22: when every product scores below 0.3 against the name asked for,
\* resolution returns neither a confident match nor any candidate; so it
\* does for an empty or white-space-only name.
C22_LowScoreGivesNone ==
    /\ (/\ Searched
        /\ \A i \in DOMAIN combinedScores : ~ratLeq(<<3, 10>>, combinedScores[i]))
       => ResolvedNone
    /\ (/\ resolution.called
        /\ resolution.fetched
        /\ trim(resolution.name) = <<>>)
       => ResolvedNone

\* C23: the score computed for a product, shared-word bonus included, lies
\* in [0, 1].
C23_ScoreWithinUnitInterval ==
    Searched
    => \A i \in DOMAIN combinedScores :
          /\ ratLeq(<<0, 1>>, combinedScores[i])
          /\ ratLeq(combinedScores[i], <<1, 1>>)

----------------------------------------------------------------------------
(* Properties of the conversation memory (SpecHistory, SpecContext) *)

\* the history holds the last min(k, 20) of the k messages recorded, in order
holdsMostRecent(history, k) ==
    /\ Len(history) = Min(k, MAX_CONVERSATION_HISTORY)
    /\ \A i \in 1..Len(history) : history[i].content = k - Len(history) + i

\* C24: after any sequence of record operations for a user, the user's
\* history holds exactly the most recent min(k, 20) recorded messages in
\* recording order, k being the number recorded: its length never exceeds 20
\* and a record operation on a full history evicts its oldest entry.
C24_HistoryKeepsMostRecent ==
    [][\A u \in Users :
          recorded'[u] # recorded[u]
          => /\ recorded'[u] = recorded[u] + 1
             /\ holdsMostRecent(userConversations[u], recorded[u])
             /\ holdsMostRecent(userConversations'[u], recorded'[u])
             /\ Len(userConversations'[u]) <= MAX_CONVERSATION_HISTORY
             /\ Len(userConversations[u]) = MAX_CONVERSATION_HISTORY
                => Tail(userConversations[u]) =
                      SubSeq(userConversations'[u], 1, MAX_CONVERSATION_HISTORY - 1)]_vars

\* 22 messages were recorded for a user: the history holds the 3rd to the 22nd
C24_Witness ==
    \E u \in Users :
        /\ recorded[u] = 22
        /\ Len(userConversations[u]) = 20
        /\ userConversations[u][1].content = 3
        /\ userConversations[u][20].content = 22

\* a message of user u is handled in the step from the current state to the next
Handled(u) == lastRef'[u] # lastRef[u] \/ recorded'[u] # recorded[u]

\* a text that consists of digits
digitsOnly(text) == text # <<>> /\ \A i \in 1..Len(text) : IsDigit(text[i])

\* C25: when the last message handled for a user was answered with a
\* disambiguation list of n candidates and the user's next message, sent
\* within the idle window, is the number K, then for 1 <= K <= n the K-th
\* candidate of the list is selected, becomes lastProduct and the pending
\* candidates are cleared, and for K outside 1..n nothing is selected and
\* lastProduct stays as it was.
C25_NumberPicksCandidate ==
    [][\A u \in Users :
          (/\ Handled(u)
           /\ lastRef[u].op = "edit"
           /\ Len(lastRef[u].shown) > 1
           /\ clock - lastRef[u].at <= IdleWindow
           /\ digitsOnly(lastRef'[u].text))
          => LET list == lastRef[u].shown
                 pick == parseInt(lastRef'[u].text)
             IN  IF pick \in 1..Len(list)
                 THEN /\ lastRef'[u].op = "selected"
                      /\ lastRef'[u].product = list[pick]
                      /\ conversationContext'[u].lastProduct = list[pick]
                      /\ conversationContext'[u].candidates = <<>>
                 ELSE /\ lastRef'[u].op # "selected"
                      /\ conversationContext'[u].lastProduct =
                            conversationContext[u].lastProduct]_vars

\* C26: when the last message handled for a user was answered with a
\* numbered list of products (by /products, by the "did you mean" of
\* /product or by a natural-language edit) and the user's next message, sent
\* within the idle window, holds an ordinal K within the list, the message
\* is resolved to the K-th product of that list.
C26_OrdinalAgainstListShown ==
    [][\A u \in Users :
          (/\ Handled(u)
           /\ lastRef[u].shown # <<>>
           /\ clock - lastRef[u].at <= IdleWindow
           /\ lastRef'[u].text \in ContextTexts
           /\ Scanned[lastRef'[u].text].number \in 1..Len(lastRef[u].shown))
          => /\ lastRef'[u].by = "number"
             /\ lastRef'[u].name =
                   lastRef[u].shown[Scanned[lastRef'[u].text].number].name]_vars

\* C27: a product edit is resolved by the first pattern that applies: an
\* ordinal within lastProductList, else one of the pronouns it, this, that
\* against lastProduct, else the product keyword in the text. So a text with
\* no ordinal and no pronoun that holds a product keyword is resolved to
\* that keyword.
C27_FirstPatternThatApplies ==
    [][\A u \in Users :
          (Handled(u) /\ lastRef'[u].op = "edit")
          => LET scan == Scanned[lastRef'[u].text]
                 ctx  == conversationContext[u]
             IN  IF scan.number \in 1..Len(ctx.lastProductList)
                 THEN /\ lastRef'[u].by = "number"
                      /\ lastRef'[u].name = ctx.lastProductList[scan.number].name
                 ELSE IF scan.pronoun /\ ctx.lastProduct # NoProduct
                 THEN /\ lastRef'[u].by = "lastProduct"
                      /\ lastRef'[u].name = ctx.lastProduct.name
                 ELSE scan.keyword # <<>>
                      => /\ lastRef'[u].by = "keyword"
                         /\ lastRef'[u].name = scan.keyword]_vars

\* C28: a message is never resolved from the memory of a context that has
\* been idle for more than 30 minutes: when lastProduct, lastProductList or
\* the pending candidates decide what a message refers to, the user's
\* previous message was handled at most 30 minutes before.
C28_IdleContextIsNotUsed ==
    [][\A u \in Users :
          (Handled(u) /\ lastRef'[u].by \in {"number", "lastProduct", "candidates"})
          => clock - lastRef[u].at <= IdleWindow]_vars

\* C29: handling a message of one user leaves the session, the context, the
\* history and the pending confirmation of every other user unchanged.
C29_OtherUsersUntouched ==
    [][\A a, b \in Users :
          (a # b /\ Handled(a) /\ ~Handled(b))
          => /\ userWorkflows'[b] = userWorkflows[b]
             /\ conversationContext'[b] = conversationContext[b]
             /\ userConversations'[b] = userConversations[b]
             /\ pendingConfirmations'[b] = pendingConfirmations[b]]_vars

----------------------------------------------------------------------------
(* Ordering of one user's messages (SpecGate) *)

\* C30: the handling of a text message of a user, which starts by reading
\* the user's pending confirmation, never starts while the handling of an
\* earlier text message of the same user is still unfinished.
C30_OneUsersTurnsAreSerial ==
    [][\A t \in Delivered :
          t.route # "NonText"
          => \A s \in BagToSet(tasks) : ~(s.from = t.from /\ s.route # "NonText")]_vars

----------------------------------------------------------------------------
(* Properties of failure handling at the message handler (SpecGate) *)

\* C31: whatever a collaborator does, a failing delivery of the failure
\* report included, no exception escapes handleIncomingWhatsAppMessage: no
\* send ends by throwing out of the message handler.
C31_NoExceptionEscapes == ~escaped

----------------------------------------------------------------------------
(* Properties of collaborator failures at step 1 (SpecFaults) *)

\* the catalog fetch of findProductByName fails
CatalogDown == [NominalEnv EXCEPT !.find = -1]

\* C32: when the catalog look-up of a product name fails at step 1 of
\* CreateCampaign, the user is sent a report that quotes the error, is not
\* sent the "product not found" message, and the stored step is still 1.
C32_LookupFailureIsReported ==
    \A u \in Users : \A text \in FaultTexts :
        LET r == handleWorkflowStep(Ctx(userWorkflows[u], CatalogDown), text)
        IN  (/\ userWorkflows[u].workflow = "create_campaign"
             /\ userWorkflows[u].step = 1
             /\ hasCall(r.calls, "findProductByName"))
            => /\ \E i \in 1..Len(r.sent) : r.sent[i].error # "none"
               /\ ~hasMsg(r.sent, "productNotFound")
               /\ r.stored.workflow = "create_campaign"
               /\ r.stored.step = 1

----------------------------------------------------------------------------
(* Properties of the name similarity (SpecResolver) *)

\* the scores of the layers of calculateSimilarity that apply to two
\* lower-cased strings: equality, containment, shared words, and the
\* positional overlap of their characters
layerScores(s1, s2) ==
    LET words1 == splitWords(s1)
        words2 == splitWords(s2)
        common == commonWords(words1, words2)
        maxLen == Max(Len(s1), Len(s2))
        minLen == Min(Len(s1), Len(s2))
        matches == Cardinality({i \in 1..minLen : s1[i] = s2[i]})
    IN  (IF s1 = s2 THEN {<<1, 1>>} ELSE {})
        \cup (IF includes(s1, s2) \/ includes(s2, s1) THEN {<<8, 10>>} ELSE {})
        \cup (IF common > 0 THEN {<<common, Max(Len(words1), Len(words2))>>} ELSE {})
        \cup (IF maxLen > 0 THEN {<<matches, maxLen>>} ELSE {})

\* C33: the similarity of the search name and a product name is the highest
\* of the scores of the layers that apply to them, not the score of the
\* first layer that applies.
C33_SimilarityIsHighestLayer ==
    (resolution.called /\ resolution.fetched)
    => \A i \in 1..Len(resolution.products) :
          LET s1 == trim(toLowerCase(resolution.name))
              s2 == toLowerCase(resolution.products[i].name)
          IN  \A x \in layerScores(s1, s2) : ratLeq(x, calculateSimilarity(s1, s2))

----------------------------------------------------------------------------
(* Properties of the objective step (SpecWorkflow) *)

\* the objective the claim gives for a text that holds none of the keywords
\* of step 3: the choices 1 to 4 in order, the first for anything else
objectiveChoice(text) ==
    IF text = T.d2 THEN "LINK_CLICKS"
    ELSE IF text = T.d3 THEN "REACH"
    ELSE IF text = T.d4 THEN "POST_ENGAGEMENT"
    ELSE "CONVERSIONS"

\* C34: a message handled at step 3 of CreateCampaign leaves the stored step
\* at 4 and the stored objective at the one chosen: 1, 2, 3, 4 select
\* CONVERSIONS, LINK_CLICKS, REACH, POST_ENGAGEMENT and an unrecognised text
\* selects CONVERSIONS.
C34_ObjectiveStepAlwaysAdvances ==
    [][\A u \in Users :
          StepTurn(u, 3)
          => /\ userWorkflows'[u].workflow = "create_campaign"
             /\ userWorkflows'[u].step = 4
             /\ userWorkflows'[u].data.objective = objectiveChoice(lastTurn'[u].text)
             /\ userWorkflows'[u].data.objective \in
                   {"CONVERSIONS", "LINK_CLICKS", "REACH", "POST_ENGAGEMENT"}]_vars

\* an unrecognised text was just handled at step 3: the stored step is 4 and
\* the stored objective is CONVERSIONS
C34_Witness ==
    \E u \in Users :
        /\ lastTurn[u].op = "step"
        /\ lastTurn[u].pre = [workflow |-> "create_campaign", step |-> 3]
        /\ lastTurn[u].text = T.shampoo
        /\ userWorkflows[u].workflow = "create_campaign"
        /\ userWorkflows[u].step = 4
        /\ userWorkflows[u].data.objective = "CONVERSIONS"

----------------------------------------------------------------------------
(* Properties of workflowData across chained handlers (SpecWorkflow) *)

\* one turn of the workflow engine on the session w: a navigation keyword
\* goes to handleWorkflowNavigation, any other text to handleWorkflowStep
turnOf(w, text, env) ==
    IF isWorkflowNavigation(text) THEN handleWorkflowNavigation(Ctx(w, env), text)
    ELSE handleWorkflowStep(Ctx(w, env), text)

\* C35: every key a CreateCampaign handler writes into workflowData during a
\* turn is stored with that value when the turn ends, unless the workflow
\* ended in the turn; a handler chained from another handler included.
C35_WritesSurviveTheTurn ==
    \A u \in Users : \A text \in StepTexts \cup NavTexts : \A env \in AnsweringEnvs :
        LET r == turnOf(userWorkflows[u], text, env)
        IN  (/\ userWorkflows[u].workflow = "create_campaign"
             /\ r.stored.workflow = "create_campaign")
            => \A k \in DOMAIN r.written : r.stored.data[k] = r.written[k]

----------------------------------------------------------------------------
(* Properties of media generation (SpecWorkflow) *)

\* the generative-media collaborator was called
generatesMedia(calls) == hasCall(calls, "generateImage") \/ hasCall(calls, "generateVideo")

\* the text is a skip of the media step: "skip", "no" or the choice 4
isMediaSkip(messageText) ==
    \/ leadingDigit(messageText) = 4
    \/ trim(toLowerCase(messageText)) \in {T.skip, T.no}

\* C36: media is generated only while a non-empty message that is not a skip
\* is handled at step 2 of CreateCampaign; never as a consequence of `back`
\* or of a product selection made at step 1.
C36_MediaOnlyOnRequest ==
    [][\A u \in Users :
          (Turn(u) /\ generatesMedia(lastTurn'[u].calls))
          => /\ lastTurn'[u].op = "step"
             /\ lastTurn'[u].pre = [workflow |-> "create_campaign", step |-> 2]
             /\ lastTurn'[u].text # <<>>
             /\ ~isMediaSkip(lastTurn'[u].text)]_vars

----------------------------------------------------------------------------
(* Properties of the stored step (SpecWorkflow) *)

\* C37: the stored step of a CreateCampaign session is an integer in 1..5 and
\* the stored step of a MainMenu session is 0, whatever inputs, back, failures
\* and chained handler calls came before.
C37_StepInRange ==
    \A u \in Users :
        /\ userWorkflows[u].workflow = "create_campaign" => userWorkflows[u].step \in 1..5
        /\ userWorkflows[u].workflow = "main_menu" => userWorkflows[u].step = 0

\* `back` at step 2 has just stored step 1, the lowest step of CreateCampaign
C37_Witness ==
    \E u \in Users :
        /\ lastTurn[u].op = "nav"
        /\ isBack(lastTurn[u].text)
        /\ lastTurn[u].pre = [workflow |-> "create_campaign", step |-> 2]
        /\ userWorkflows[u].workflow = "create_campaign"
        /\ userWorkflows[u].step = 1

----------------------------------------------------------------------------
(* Properties of the pending confirmation between messages (SpecGate) *)

\* C38: a pending confirmation stays outstanding, with its command and args
\* unchanged, until the same user's next text message: a non-text message of
\* that user, the completion of calls in flight (the passage of time) and the
\* messages of other users neither remove nor change it.
C38_PendingKeptUntilNextText ==
    [][\A u \in Users :
          (pendingConfirmations[u] # NoPending
              /\ pendingConfirmations'[u] # pendingConfirmations[u])
          => \E t \in Delivered : t.from = u /\ t.route # "NonText"]_vars

\* a confirmation is outstanding after its prompt was sent, while a non-text
\* message of the same user and a message of another user are being handled
C38_Witness ==
    \E u \in Users :
        /\ pendingConfirmations[u] # NoPending
        /\ \E t \in BagToSet(tasks) :
              t.from = u /\ t.route = "NonText" /\ t.pending = pendingConfirmations[u]
        /\ \E t \in BagToSet(tasks) : t.from # u

----------------------------------------------------------------------------
(* Properties of the deferred budget pre-fill (SpecWorkflow) *)

\* the callback armed by the shortcut ran for the user u in this step
TimerRan(u) == budgetTimer'[u] # budgetTimer[u] /\ lastTurn'[u] = lastTurn[u]

\* C39: the deferred pre-fill of the "create campaign ... $B" shortcut never
\* overwrites a budget the user has entered at step 4, however the timer is
\* interleaved with the user's messages.
C39_PrefillKeepsEnteredBudget ==
    [][\A u \in Users :
          (/\ TimerRan(u)
           /\ userWorkflows[u].workflow = "create_campaign"
           /\ userWorkflows[u].step = 5
           /\ lastTurn[u].op = "step"
           /\ lastTurn[u].pre = [workflow |-> "create_campaign", step |-> 4])
          => userWorkflows'[u].data.budget = userWorkflows[u].data.budget]_vars

----------------------------------------------------------------------------
(* Properties of pollVideoJob (SpecPoll) *)

\* the state the last poll request reported
seenState == IF poll.seen.status = 200 THEN poll.seen.state ELSE "undefined"

\* the last poll request found the job neither finished nor missing
stillRunning ==
    /\ poll.seen.status = 200
    /\ poll.seen.state \notin {"JOB_STATE_SUCCEEDED", "JOB_STATE_FAILED", "JOB_STATE_CANCELLED"}

\* what holds of the polls whatever a SUCCEEDED job leads to: at most
\* maxAttempts poll requests, immediate failure on FAILED and CANCELLED, a 404
\* tolerated on the first two attempts only, the timeout error exactly when
\* the maxAttempts-th poll has found the job still running
pollOutcomes ==
    /\ poll.polls <= maxAttempts
    /\ seenState = "JOB_STATE_FAILED" => poll.pc = "done" /\ poll.outcome = "failed"
    /\ seenState = "JOB_STATE_CANCELLED" => poll.pc = "done" /\ poll.outcome = "cancelled"
    /\ (poll.pc = "sleep" /\ 404 \in {poll.seen.status, poll.download}) => poll.attempt < 2
    /\ (poll.pc = "done" /\ poll.seen.status = 404)
          => poll.outcome = "requestError" /\ poll.attempt >= 2
    /\ poll.outcome = "timeout"
          <=> (poll.pc = "done" /\ poll.polls = maxAttempts /\ stillRunning)

====
